---- MODULE Spec2Model ----
(***************************************************************************)
(* The Agent-Editor Bridge of neoai as a state machine.                    *)
(*                                                                         *)
(* Three hooks and one component hold the state:                           *)
(*   useAiChat     (src/unnamed/part_016)  the exchange state machine      *)
(*   useNvimBridge (src/unnamed/part_015)  the editor connection           *)
(*   useAcpAgent   (src/src/hooks/useAcpAgent.ts)  agent + permissions     *)
(*   AiChat        (src/unnamed/part_006)  start/connect orchestration     *)
(*                                                                         *)
(* Every await of the source is a step boundary: a call that is awaiting *)
(* its reply is a record in one of the in-flight sequences, and its        *)
(* resolution or rejection is a separate action.  A promise that settles   *)
(* without leaving the event loop (an async function that throws or        *)
(* returns before its first real await) settles in a microtask: it is an   *)
(* in-flight record with sent = FALSE, and while one exists no other       *)
(* action runs.                                                            *)
(*                                                                         *)
(* React state read through a callback is the value captured by the render *)
(* that created the callback.  Updates made inside a DOM event handler     *)
(* (click, key) are flushed before the next event; updates made inside a   *)
(* Tauri event listener, a promise continuation or an effect are rendered  *)
(* by a later task (actions Rerender and RerenderAgent), so a handler can   *)
(* run against the value of the previous render.                           *)
(***************************************************************************)
EXTENDS Integers, Sequences, FiniteSets, TLC

VARIABLES
    \* ---- useAiChat (part_016)
    messages,               \* ChatMessage[] (state, persisted)
    isStreaming,            \* state
    renderedStreaming,      \* isStreaming as captured by the callbacks in use
    autoApply,              \* state, persisted
    autoApplyRef,           \* ref kept in sync with autoApply
    currentAssistantIdRef,  \* ref: id of the assistant placeholder, 0 = null
    actionTriggeredRef,     \* ref
    traceTail,              \* stage of the newest entry of traceEvents
    nextMsgId,              \* next value nextMessageId() returns
    prompts,                \* acp.sendPrompt calls awaiting their reply
    applies,                \* nvim.applyEdits calls awaiting their reply
    agentTurns,             \* the agent's turns not yet ended by done or error,
                            \* oldest first: [id: the placeholder's id,
                            \* emitted: content chunks emitted so far,
                            \* other: tool-call and thought events emitted]
    \* ---- useNvimBridge (part_015), as far as the chat reads it
    terminalId,             \* active terminal
    status,                 \* ConnectionStatus
    context,                \* NvimContext | null
    diagnostics,            \* Diagnostic[]
    health,                 \* NvimHealth | null
    keymapStatus,           \* KeymapStatus
    lastError,              \* string | null
    failedRefreshesRef,     \* ref
    tasks,                  \* async functions of the bridge, of startNvim and
                            \* stopAgent that wait at an await: [kind, pc, tid: the
                            \* terminalId of the closure, token: attemptId, ...]
    nvimUp,                 \* backend: terminals whose Neovim it is connected to
    keymapsUp,              \* backend: terminals whose Neovim has the neoai keymaps
    lastProbe,              \* history: what the newest health snapshot said
    autoStartsForKey,       \* history: automatic agent starts begun since the
                            \* connection key last changed
    \* ---- AiChat (part_006)
    startAttemptRef,        \* ref
    isStartingNvim,         \* state
    tmuxFallbackPrompt,     \* string | null
    isRespondingPermission, \* state
    \* ---- useAcpAgent
    agentStatus,            \* AgentStatus
    renderedAgentStatus,    \* acp.status as captured by the callbacks in use
    sessionId,              \* 0 = null
    permissionQueue,        \* AcpPermissionRequest[]
    responses,              \* respondPermission calls awaiting their reply
    forwarded,              \* backend: the responses the agent received
    nextRequestId,          \* backend: number of the next permission request
    ensures,                \* ensureAgentSession runs waiting at an await
    autoStartedConnectKeyRef, \* ref of AiChat (part_006)
    installState,           \* AcpInstallStatus | null
    agentError,             \* AiChat state, string | null
    permissionError,        \* AiChat state, string | null
    \* ---- useSessionManager and useTerminalManager
    isPickerOpen,           \* state
    isClosing,              \* state
    isClosingRef,           \* ref
    terminals,              \* the keys of the terminals map
    savedSessions,          \* backend: terminals whose folder session was saved
    \* ---- clock (Date.now(), in ms)
    now

chatVars == <<messages, isStreaming, renderedStreaming, autoApply, autoApplyRef,
              currentAssistantIdRef, actionTriggeredRef, traceTail, nextMsgId,
              prompts, applies, agentTurns>>
bridgeVars == <<terminalId, status, context, diagnostics, health, keymapStatus, lastError,
                failedRefreshesRef, tasks, nvimUp, keymapsUp, lastProbe, autoStartsForKey,
                startAttemptRef, isStartingNvim, tmuxFallbackPrompt>>
agentVars == <<agentStatus, renderedAgentStatus, sessionId, permissionQueue, isRespondingPermission,
               responses, forwarded, nextRequestId, ensures, agentError, permissionError,
               installState, autoStartedConnectKeyRef>>
sessionVars == <<isPickerOpen, isClosing, isClosingRef, terminals, savedSessions>>
vars == <<chatVars, bridgeVars, agentVars, now, sessionVars>>

(***************************************************************************)
(* Bounds of the model.                                                    *)
(***************************************************************************)
MaxExchanges == 2      \* submissions accepted in one run
MaxApplies == 1        \* applyEdits calls in flight at once
MaxOtherEvents == 1    \* tool-call and thought events the agent emits in one turn

(***************************************************************************)
(* Values.                                                                 *)
(***************************************************************************)
NoTerminal == "null"
Terminals == {"t1", "t2"}
NoContext == [null |-> TRUE]
NoEdits == <<>>            \* proposedEdits undefined
NoContextString == "undefined"
\* useAcpAgent.ts:16 and 79-82, the install status
NoInstall == [phase |-> "null", message |-> "null"]
StartingInstall == [phase |-> "starting", message |-> "Starting AI agent..."]

Ctx1 == [filePath |-> "/p/a.ts", fileType |-> "ts", cursorLine |-> 5, cursorCol |-> 1,
         visibleFrom |-> 1, visibleTo |-> 2, visibleLines |-> <<"l1", "l2">>]
Diag1 == [line |-> 4, col |-> 0, severity |-> 1, message |-> "boom", source |-> "tsc"]
Diag2 == [line |-> 0, col |-> 0, severity |-> 7, message |-> "odd", source |-> ""]

Ctx2 == [Ctx1 EXCEPT !.filePath = "/q/b.ts"]
NoHealth == [null |-> TRUE]
\* NvimHealth as far as the frontend reads it
Snapshot(connected, keymapsInjected) ==
    [connected |-> connected, keymapsInjected |-> keymapsInjected, lastError |-> "null"]

Edits1 == <<[startLine |-> 4, endLine |-> 6, newLines |-> <<"a", "b">>],
            [startLine |-> 9, endLine |-> 9, newLines |-> <<>>]>>

\* The content chunks of the agent's reply to a prompt, in the order it emits them
Reply == <<"Hello", " world">>
ErrorData == {"boom"}
TypedTexts == {"fix this", "  "}

(***************************************************************************)
(* Pure functions of useAiChat.                                            *)
(***************************************************************************)
\* The code fence of the prompts (three grave accents in the source; the
\* character cannot be written in a string here).
Fence == "~~~"

Digit(d) ==
    CASE d = 0 -> "0" [] d = 1 -> "1" [] d = 2 -> "2" [] d = 3 -> "3" [] d = 4 -> "4"
      [] d = 5 -> "5" [] d = 6 -> "6" [] d = 7 -> "7" [] d = 8 -> "8" [] d = 9 -> "9"

RECURSIVE NatToStr(_)
NatToStr(n) == IF n < 10 THEN Digit(n) ELSE NatToStr(n \div 10) \o Digit(n % 10)

RECURSIVE Join(_, _)
Join(parts, sep) ==
    IF parts = <<>> THEN ""
    ELSE IF Len(parts) = 1 THEN parts[1]
    ELSE parts[1] \o sep \o Join(Tail(parts), sep)

severityLabel(severity) ==
    CASE severity = 1 -> "ERROR"
      [] severity = 2 -> "WARN"
      [] severity = 3 -> "INFO"
      [] severity = 4 -> "HINT"
      [] OTHER -> "UNKNOWN"

formatDiagnostic(d) ==
    "[" \o severityLabel(d.severity) \o "] " \o d.message
        \o (IF d.source # "" THEN " (" \o d.source \o ")" ELSE "")

numberLines(lines, startLine) ==
    Join([i \in 1..Len(lines) |-> NatToStr(startLine + (i - 1)) \o ": " \o lines[i]], "\n")

\* part_016:213-235, the context string of sendMessage
BuildContextString(ctx, diags) ==
    IF ctx = NoContext THEN NoContextString
    ELSE Join(
        <<"File: " \o ctx.filePath \o " (" \o ctx.fileType \o ")",
          "Cursor: line " \o NatToStr(ctx.cursorLine) \o ", col " \o NatToStr(ctx.cursorCol),
          "Buffer lines " \o NatToStr(ctx.visibleFrom) \o "-" \o NatToStr(ctx.visibleTo) \o ":",
          Fence>>
        \o ctx.visibleLines
        \o <<Fence>>
        \o (IF Len(diags) > 0
            THEN <<"\nDiagnostics:">>
                 \o [i \in 1..Len(diags) |->
                        "  Line " \o NatToStr(diags[i].line + 1) \o ": " \o formatDiagnostic(diags[i])]
            ELSE <<>>),
        "\n")

ActionFix == [action |-> "fixDiagnostic", filePath |-> "/p/a.ts", fileType |-> "ts",
              cursorLine |-> 5, diagnostic |-> Diag1, prompt |-> "", selection |-> "null",
              signatureLines |-> <<>>, targetText |-> "",
              contextLines |-> <<"x()", "y()">>, contextStartLine |-> 9]
ActionAsk == [ActionFix EXCEPT !.action = "ask", !.prompt = "why?", !.selection = "x()"]
ActionImplement == [ActionFix EXCEPT !.action = "implement", !.signatureLines = <<"fn f()">>]
ActionExplain == [ActionFix EXCEPT !.action = "explain", !.targetText = "x()"]
NvimActions == {ActionFix}

buildActionPrompt(action) ==
    LET ctxBlock == <<Fence, numberLines(action.contextLines, action.contextStartLine), Fence>>
    IN CASE action.action = "fixDiagnostic" ->
              Join(<<"Fix the following diagnostic in " \o action.filePath \o " at line "
                        \o NatToStr(action.cursorLine) \o ":",
                     formatDiagnostic(action.diagnostic), "", "Context:">> \o ctxBlock, "\n")
         [] action.action = "implement" ->
              Join(<<"Implement the following in " \o action.filePath
                        \o " (" \o action.fileType \o "):",
                     Fence, Join(action.signatureLines, "\n"), Fence, "",
                     "Surrounding context:">> \o ctxBlock, "\n")
         [] action.action = "explain" ->
              Join(<<"Explain the following code from " \o action.filePath
                        \o " (" \o action.fileType \o "):",
                     Fence, action.targetText, Fence, "", "Context:">> \o ctxBlock, "\n")
         [] action.action = "ask" ->
              Join(<<action.prompt>>
                   \o (IF action.selection # "null"
                       THEN <<"", "Selected code:", Fence, action.selection, Fence>>
                       ELSE <<>>)
                   \o <<"", "Context:">> \o ctxBlock, "\n")

ActionPrompts == {buildActionPrompt(a) : a \in NvimActions}

\* String.prototype.trim on the inputs the model draws
Trim(s) == IF s = "  " THEN "" ELSE s

(***************************************************************************)
(* useAiChat: messages.                                                    *)
(***************************************************************************)
NewMessage(id, role, content) ==
    [id |-> id, role |-> role, content |-> content, timestamp |-> now,
     systemKind |-> "none", context |-> NoContext, diagnostics |-> <<>>,
     proposedEdits |-> NoEdits, editStatus |-> "unset"]

\* prev.map((m) => m.id === id ? f(m) : m), f a function on the messages of prev
MapMessage(msgs, id, f) ==
    [i \in DOMAIN msgs |-> IF msgs[i].id = id THEN f[msgs[i]] ELSE msgs[i]]

MessagesOf(msgs) == {msgs[i] : i \in DOMAIN msgs}

RemoveAt(seq, i) == SubSeq(seq, 1, i - 1) \o SubSeq(seq, i + 1, Len(seq))

HasMessage(msgs, id) == \E i \in DOMAIN msgs : msgs[i].id = id
MessageById(msgs, id) == msgs[CHOOSE i \in DOMAIN msgs : msgs[i].id = id]

\* The transcripts the persisted key libg:chatMessages is read from in the model:
\* one earlier assistant message that carries proposed edits.
StoredAssistant(st) ==
    [id |-> 1, role |-> "assistant", content |-> "patch", timestamp |-> 0,
     systemKind |-> "none", context |-> NoContext, diagnostics |-> <<>>,
     proposedEdits |-> Edits1, editStatus |-> st]
StoredTranscripts ==
    {<<StoredAssistant(st)>> : st \in {"unset", "pending", "rejected"}}
FirstFreshId == 2

MAX_PERSISTED_MESSAGES == 200
\* part_016:51-59, the trim on mount
TrimOnMount(prev) ==
    IF Len(prev) > MAX_PERSISTED_MESSAGES
    THEN SubSeq(prev, Len(prev) - MAX_PERSISTED_MESSAGES + 1, Len(prev))
    ELSE prev

(***************************************************************************)
(* Calls that leave the hook.                                              *)
(***************************************************************************)
\* A sendPrompt that invokes acp_send_prompt whether or not a session exists
sendPrompt_Unguarded(assistantId, blocks, contextStr) ==
    [assistantId |-> assistantId, sent |-> TRUE, sessionId |-> sessionId,
     blocks |-> blocks, contextString |-> NoContextString]

\* useAcpAgent.sendPrompt: one parameter, blocks; throws without a session.
\* The record is the call awaiting its reply; sent = FALSE is the throw.
sendPrompt(assistantId, blocks, contextStr) ==
    [assistantId |-> assistantId, sent |-> sessionId # 0, sessionId |-> sessionId,
     blocks |-> blocks, contextString |-> NoContextString]

\* An applyEdits that hands the editor the first edit of the batch only
nvimApplyEdits_FirstEdit(messageId, edits, auto) ==
    [messageId |-> messageId, edits |-> <<Head(edits)>>, auto |-> auto,
     sent |-> terminalId # NoTerminal, terminalId |-> terminalId]

\* useNvimBridge.applyEdits: returns at once when no terminal is active.
nvimApplyEdits(messageId, edits, auto) ==
    [messageId |-> messageId, edits |-> edits, auto |-> auto,
     sent |-> terminalId # NoTerminal, terminalId |-> terminalId]

MicrotaskPending ==
    \/ \E i \in DOMAIN prompts : ~prompts[i].sent
    \/ \E i \in DOMAIN applies : ~applies[i].sent

(***************************************************************************)
(* useAiChat: sendMessage.                                                 *)
(***************************************************************************)
\* part_016:186, with the isStreaming of the callback's render
sendMessageAccepts(content) == Trim(content) # "" /\ ~renderedStreaming

\* A submission that appends the placeholder before the user message
ExchangeMessages_PlaceholderFirst(content) ==
    <<NewMessage(nextMsgId + 1, "assistant", ""),
      [NewMessage(nextMsgId, "user", content) EXCEPT
          !.context = context, !.diagnostics = diagnostics]>>

\* part_016:190-210, the two messages of a submission
ExchangeMessages(content) ==
    <<[NewMessage(nextMsgId, "user", content) EXCEPT
          !.context = context, !.diagnostics = diagnostics],
      NewMessage(nextMsgId + 1, "assistant", "")>>

ExchangesLeft == nextMsgId < FirstFreshId + 2 * MaxExchanges

\* part_016:187-239: sendMessage from its guard to its await
sendMessage(content) ==
    /\ ExchangesLeft
    /\ messages' = messages \o ExchangeMessages(content)
    /\ currentAssistantIdRef' = nextMsgId + 1
    /\ isStreaming' = TRUE
    /\ prompts' = Append(prompts, sendPrompt(nextMsgId + 1, <<content>>,
                                             BuildContextString(context, diagnostics)))
    /\ agentTurns' = IF sessionId # 0
                     THEN Append(agentTurns, [id |-> nextMsgId + 1, emitted |-> 0, other |-> 0])
                     ELSE agentTurns
    /\ traceTail' = "agent.prompt.start"
    /\ nextMsgId' = nextMsgId + 2

isConnected == status = "Connected"

\* part_006:263-266: the key of an editor connection; NvimHealth.socketPath is
\* not modelled (the socket of a terminal is fixed), so the key's second part
\* is the fallback word
ConnectKey(tid) == tid \o ":connected"
ConnectKeyAt(st, tid) ==
    IF st = "Connected" /\ tid # NoTerminal THEN ConnectKey(tid) ELSE "null"
nvimConnectKey == ConnectKeyAt(status, terminalId)
isAgentRunning == agentStatus = "Running"

\* ChatInput.handleSend (part_007:17-25) -> sendMessage; a DOM event, so the
\* render that follows is flushed with it.
TypedSubmit(text) ==
    /\ isConnected /\ isAgentRunning /\ ~renderedStreaming
    /\ IF Trim(text) # "" /\ sendMessageAccepts(Trim(text))
       THEN /\ sendMessage(Trim(text))
            /\ renderedStreaming' = TRUE
            /\ UNCHANGED <<autoApply, autoApplyRef, actionTriggeredRef, applies>>
       ELSE UNCHANGED chatVars
    /\ UNCHANGED <<bridgeVars, agentVars, now, sessionVars>>

\* part_016:261-277, the nvim-action listener; registered while a terminal is
\* active, with the terminalId and isStreaming of the render that registered it.
NvimActionEvent(eventTerminalId, action) ==
    /\ terminalId # NoTerminal
    /\ IF eventTerminalId # terminalId \/ renderedStreaming
       THEN /\ traceTail' = "nvim.action.ignored"
            /\ UNCHANGED <<messages, isStreaming, currentAssistantIdRef, actionTriggeredRef,
                           nextMsgId, prompts, agentTurns>>
       ELSE /\ actionTriggeredRef' = TRUE
            /\ IF sendMessageAccepts(buildActionPrompt(action))
               THEN sendMessage(buildActionPrompt(action))
               ELSE /\ traceTail' = "nvim.action.forwarded"
                    /\ UNCHANGED <<messages, isStreaming, currentAssistantIdRef,
                                   nextMsgId, prompts, agentTurns>>
    /\ UNCHANGED <<renderedStreaming, autoApply, autoApplyRef, applies>>
    /\ UNCHANGED <<bridgeVars, agentVars, now, sessionVars>>

\* The render and re-subscription that follow a state update made outside a
\* DOM event handler.
Rerender ==
    /\ renderedStreaming # isStreaming
    /\ renderedStreaming' = isStreaming
    /\ UNCHANGED <<messages, isStreaming, autoApply, autoApplyRef, currentAssistantIdRef,
                   actionTriggeredRef, traceTail, nextMsgId, prompts, applies, agentTurns>>
    /\ UNCHANGED <<bridgeVars, agentVars, now, sessionVars>>

\* part_016:241-252, the catch of sendMessage
PromptErrorContent(m, e) == [m EXCEPT !.content = "**Error:** " \o e]

PromptCatch(i, e) ==
    /\ traceTail' = "agent.prompt.error"
    /\ isStreaming' = FALSE
    /\ messages' = MapMessage(messages, prompts[i].assistantId,
                              [m \in MessagesOf(messages) |-> PromptErrorContent(m, e)])
    /\ currentAssistantIdRef' = 0
    /\ prompts' = RemoveAt(prompts, i)

\* sendPrompt threw "No active session": the catch runs before any other event.
PromptThrows(i) ==
    /\ i \in DOMAIN prompts /\ ~prompts[i].sent
    /\ PromptCatch(i, "Error: No active session")
    /\ renderedStreaming' = FALSE
    /\ UNCHANGED <<autoApply, autoApplyRef, actionTriggeredRef, nextMsgId, applies,
                   agentTurns>>
    /\ UNCHANGED <<bridgeVars, agentVars, now, sessionVars>>

\* acp_send_prompt was rejected by the backend
PromptRejected(i, e) ==
    /\ i \in DOMAIN prompts /\ prompts[i].sent
    /\ PromptCatch(i, e)
    /\ LET Other(t) == t.id # prompts[i].assistantId
       IN agentTurns' = SelectSeq(agentTurns, Other)
    /\ UNCHANGED <<renderedStreaming, autoApply, autoApplyRef, actionTriggeredRef,
                   nextMsgId, applies>>
    /\ UNCHANGED <<bridgeVars, agentVars, now, sessionVars>>

\* part_016:239-240, acp_send_prompt returned
PromptResolved(i) ==
    /\ i \in DOMAIN prompts /\ prompts[i].sent
    /\ traceTail' = "agent.prompt.sent"
    /\ prompts' = RemoveAt(prompts, i)
    /\ UNCHANGED <<messages, isStreaming, renderedStreaming, autoApply, autoApplyRef,
                   currentAssistantIdRef, actionTriggeredRef, nextMsgId, applies, agentTurns>>
    /\ UNCHANGED <<bridgeVars, agentVars, now, sessionVars>>

(***************************************************************************)
(* useAiChat: the agent's event stream (part_016:116-182).  The agent       *)
(* emits events while one of its turns is open.                            *)
(***************************************************************************)
\* A chunk handler that replaces the content instead of extending it
AppendChunk_Replace(m, data) == [m EXCEPT !.content = data]

\* part_016:125
AppendChunk(m, data) == [m EXCEPT !.content = m.content \o data]

\* An error handler that replaces the content by the error text
AppendError_Replace(m, data) == [m EXCEPT !.content = "**Error:** " \o data]

\* part_016:172
AppendError(m, data) == [m EXCEPT !.content = m.content \o "\n\n**Error:** " \o data]

\* The chunk the agent emits next in its oldest open turn
NextChunk == Reply[Head(agentTurns).emitted + 1]

\* The last assistant message of a transcript, 0 when there is none
LastAssistantId(msgs) ==
    LET hits == {i \in DOMAIN msgs : msgs[i].role = "assistant"}
    IN IF hits = {} THEN 0 ELSE msgs[CHOOSE i \in hits : \A j \in hits : j <= i].id

\* A chunk handler that falls back to the last assistant message when no
\* exchange is in flight
OnContentChunk_LastAssistant(data) ==
    /\ agentTurns # <<>>
    /\ Head(agentTurns).emitted < Len(Reply)
    /\ data = NextChunk
    /\ agentTurns' = <<[Head(agentTurns) EXCEPT !.emitted = @ + 1]>> \o Tail(agentTurns)
    /\ LET target == IF currentAssistantIdRef = 0 THEN LastAssistantId(messages)
                     ELSE currentAssistantIdRef
       IN IF target = 0
          THEN UNCHANGED messages
          ELSE messages' = MapMessage(messages, target,
                                      [m \in MessagesOf(messages) |-> AppendChunk(m, data)])
    /\ UNCHANGED <<isStreaming, renderedStreaming, autoApply, autoApplyRef,
                   currentAssistantIdRef, actionTriggeredRef, traceTail, nextMsgId,
                   prompts, applies>>
    /\ UNCHANGED <<bridgeVars, agentVars, now, sessionVars>>

\* part_016:119-130, a contentChunk event
OnContentChunk(data) ==
    /\ agentTurns # <<>>
    /\ Head(agentTurns).emitted < Len(Reply)
    /\ data = NextChunk
    /\ agentTurns' = <<[Head(agentTurns) EXCEPT !.emitted = @ + 1]>> \o Tail(agentTurns)
    /\ IF currentAssistantIdRef = 0
       THEN UNCHANGED messages
       ELSE messages' = MapMessage(messages, currentAssistantIdRef,
                                   [m \in MessagesOf(messages) |-> AppendChunk(m, data)])
    /\ UNCHANGED <<isStreaming, renderedStreaming, autoApply, autoApplyRef,
                   currentAssistantIdRef, actionTriggeredRef, traceTail, nextMsgId,
                   prompts, applies>>
    /\ UNCHANGED <<bridgeVars, agentVars, now, sessionVars>>

\* part_012:1-8, the events of AcpEvent that the switch of part_016:117-178 has
\* no case for
OtherEventTypes == {"thoughtChunk", "toolCallStarted", "toolCallUpdated"}

\* part_016:116-118 and 178: an event of another type reaches the callback
OnOtherEvent(type) ==
    /\ agentTurns # <<>>
    /\ type \in OtherEventTypes
    /\ Head(agentTurns).other < MaxOtherEvents
    /\ agentTurns' = <<[Head(agentTurns) EXCEPT !.other = @ + 1]>> \o Tail(agentTurns)
    /\ UNCHANGED <<messages, isStreaming, renderedStreaming, autoApply, autoApplyRef,
                   currentAssistantIdRef, actionTriggeredRef, traceTail, nextMsgId,
                   prompts, applies>>
    /\ UNCHANGED <<bridgeVars, agentVars, now, sessionVars>>

\* part_016:141-143: [...prev].reverse().find(assistant with proposedEdits);
\* the index of that message, 0 when there is none
LastAssistantWithEdits(msgs) ==
    LET hits == {i \in DOMAIN msgs :
                    msgs[i].role = "assistant" /\ msgs[i].proposedEdits # NoEdits}
    IN IF hits = {} THEN 0 ELSE CHOOSE i \in hits : \A j \in hits : j <= i

\* part_016:139 and 144: whether the done handler calls nvim.applyEdits
AutoApplyFires(msgs, wasActionTriggered, enabled) ==
    /\ wasActionTriggered
    /\ enabled
    /\ LastAssistantWithEdits(msgs) # 0
    /\ msgs[LastAssistantWithEdits(msgs)].editStatus # "applied"

OnDone ==
    /\ agentTurns # <<>>
    /\ LET fires == AutoApplyFires(messages, actionTriggeredRef, autoApplyRef)
           last == messages[LastAssistantWithEdits(messages)]
       IN /\ fires => Len(applies) < MaxApplies
          /\ applies' = IF fires
                        THEN Append(applies, nvimApplyEdits(last.id, last.proposedEdits, TRUE))
                        ELSE applies
    /\ traceTail' = "agent.done"
    /\ isStreaming' = FALSE
    /\ actionTriggeredRef' = FALSE
    /\ currentAssistantIdRef' = 0
    /\ agentTurns' = Tail(agentTurns)
    /\ UNCHANGED <<messages, renderedStreaming, autoApply, autoApplyRef, nextMsgId, prompts>>
    /\ UNCHANGED <<bridgeVars, agentVars, now, sessionVars>>

OnError(data) ==
    /\ agentTurns # <<>>
    /\ traceTail' = "agent.error"
    /\ isStreaming' = FALSE
    /\ actionTriggeredRef' = FALSE
    /\ IF currentAssistantIdRef = 0
       THEN UNCHANGED messages
       ELSE messages' = MapMessage(messages, currentAssistantIdRef,
                                   [m \in MessagesOf(messages) |-> AppendError(m, data)])
    /\ currentAssistantIdRef' = 0
    /\ agentTurns' = Tail(agentTurns)
    /\ UNCHANGED <<renderedStreaming, autoApply, autoApplyRef, nextMsgId, prompts, applies>>
    /\ UNCHANGED <<bridgeVars, agentVars, now, sessionVars>>

(***************************************************************************)
(* useAiChat: proposed edits.                                              *)
(***************************************************************************)
SetEditStatus(msgs, id, st) ==
    MapMessage(msgs, id, [m \in MessagesOf(msgs) |-> [m EXCEPT !.editStatus = st]])

\* ChatMessage (part_003:82-103): the Apply and Reject buttons of a message
ShowsEditButtons(m) == Len(m.proposedEdits) > 0 /\ m.editStatus = "pending"

\* part_016:298-305: applyProposedEdits up to its await
ClickApply(id) ==
    /\ HasMessage(messages, id)
    /\ ShowsEditButtons(MessageById(messages, id))
    /\ Len(applies) < MaxApplies
    /\ IF MessageById(messages, id).proposedEdits # NoEdits
       THEN /\ traceTail' = "edits.apply.start"
            /\ applies' = Append(applies,
                   nvimApplyEdits(id, MessageById(messages, id).proposedEdits, FALSE))
       ELSE UNCHANGED <<traceTail, applies>>
    /\ UNCHANGED <<messages, isStreaming, renderedStreaming, autoApply, autoApplyRef,
                   currentAssistantIdRef, actionTriggeredRef, nextMsgId, prompts, agentTurns>>
    /\ UNCHANGED <<bridgeVars, agentVars, now, sessionVars>>

\* part_016:320-330
rejectProposedEdits(id) ==
    /\ traceTail' = "edits.reject"
    /\ messages' = SetEditStatus(messages, id, "rejected")

ClickReject(id) ==
    /\ HasMessage(messages, id)
    /\ ShowsEditButtons(MessageById(messages, id))
    /\ rejectProposedEdits(id)
    /\ UNCHANGED <<isStreaming, renderedStreaming, autoApply, autoApplyRef,
                   currentAssistantIdRef, actionTriggeredRef, nextMsgId, prompts, applies,
                   agentTurns>>
    /\ UNCHANGED <<bridgeVars, agentVars, now, sessionVars>>

\* part_016:146-153 and 306-311: applyEdits resolved.  A call made with no
\* active terminal (sent = FALSE) resolves before any other event; the backend
\* accepts the edits of a call only for a Neovim it is connected to.
ApplyResolved(i) ==
    /\ i \in DOMAIN applies
    /\ MicrotaskPending => ~applies[i].sent
    /\ applies[i].sent => applies[i].terminalId \in nvimUp
    /\ traceTail' = IF applies[i].auto THEN "edits.autoApply.success" ELSE "edits.apply.success"
    /\ messages' = SetEditStatus(messages, applies[i].messageId, "applied")
    /\ applies' = RemoveAt(applies, i)
    /\ UNCHANGED <<isStreaming, renderedStreaming, autoApply, autoApplyRef,
                   currentAssistantIdRef, actionTriggeredRef, nextMsgId, prompts, agentTurns>>
    /\ UNCHANGED <<bridgeVars, agentVars, now, sessionVars>>

\* A catch that records the failure in the message
ApplyRejected_MarksRejected(i) ==
    /\ i \in DOMAIN applies /\ applies[i].sent
    /\ traceTail' = IF applies[i].auto THEN "edits.autoApply.error" ELSE "edits.apply.error"
    /\ messages' = SetEditStatus(messages, applies[i].messageId, "rejected")
    /\ applies' = RemoveAt(applies, i)
    /\ UNCHANGED <<isStreaming, renderedStreaming, autoApply, autoApplyRef,
                   currentAssistantIdRef, actionTriggeredRef, nextMsgId, prompts, agentTurns>>
    /\ UNCHANGED <<bridgeVars, agentVars, now, sessionVars>>

\* part_016:154-156 and 312-315: nvim_apply_edits was rejected
ApplyRejected(i) ==
    /\ i \in DOMAIN applies /\ applies[i].sent
    /\ traceTail' = IF applies[i].auto THEN "edits.autoApply.error" ELSE "edits.apply.error"
    /\ applies' = RemoveAt(applies, i)
    /\ UNCHANGED <<messages, isStreaming, renderedStreaming, autoApply, autoApplyRef,
                   currentAssistantIdRef, actionTriggeredRef, nextMsgId, prompts, agentTurns>>
    /\ UNCHANGED <<bridgeVars, agentVars, now, sessionVars>>

\* The Auto-apply checkbox (part_006:337-346); part_016:111-113 copies the
\* state to the ref.
SetAutoApply(value) ==
    /\ isConnected /\ isAgentRunning
    /\ value # autoApply
    /\ autoApply' = value
    /\ autoApplyRef' = value
    /\ UNCHANGED <<messages, isStreaming, renderedStreaming, currentAssistantIdRef,
                   actionTriggeredRef, traceTail, nextMsgId, prompts, applies, agentTurns>>
    /\ UNCHANGED <<bridgeVars, agentVars, now, sessionVars>>

(***************************************************************************)
(* The chat controller over a connected editor and a running agent.        *)
(***************************************************************************)
InitChat ==
    /\ messages \in {TrimOnMount(t) : t \in StoredTranscripts}
    /\ isStreaming = FALSE
    /\ renderedStreaming = FALSE
    /\ autoApply \in BOOLEAN
    /\ autoApplyRef = autoApply
    /\ currentAssistantIdRef = 0
    /\ actionTriggeredRef = FALSE
    /\ traceTail = "none"
    /\ nextMsgId = FirstFreshId
    /\ prompts = <<>>
    /\ applies = <<>>
    /\ agentTurns = <<>>
    /\ terminalId = "t1"
    /\ status = "Connected"
    /\ context \in {NoContext, Ctx1}
    /\ diagnostics = IF context = NoContext THEN <<>> ELSE <<Diag1>>
    /\ health = Snapshot(TRUE, TRUE)
    /\ keymapStatus = "present"
    /\ lastError = "null"
    /\ failedRefreshesRef = 0
    /\ tasks = {}
    /\ nvimUp = {"t1"}
    /\ keymapsUp = {"t1"}
    /\ lastProbe = "connected"
    /\ autoStartsForKey = 1
    /\ startAttemptRef = 1
    /\ isStartingNvim = FALSE
    /\ tmuxFallbackPrompt = "null"
    /\ agentStatus = "Running"
    /\ renderedAgentStatus = "Running"
    /\ sessionId \in {0, 1}
    /\ permissionQueue = <<>>
    /\ isRespondingPermission = FALSE
    /\ responses = <<>>
    /\ forwarded = <<>>
    /\ nextRequestId = 1
    /\ ensures = <<>>
    /\ autoStartedConnectKeyRef = ConnectKey("t1")
    /\ agentError = "null"
    /\ permissionError = "null"
    /\ installState = NoInstall
    /\ now = 0
    /\ isPickerOpen = FALSE
    /\ isClosing = FALSE
    /\ isClosingRef = FALSE
    /\ terminals = {"t1"}
    /\ savedSessions = {}

\* The committed render shows the current isStreaming
Rendered == renderedStreaming = isStreaming

\* One step of the chat controller.  A promise that settled without leaving the
\* event loop continues before any other event is delivered.  With "inOrder"
\* an event is delivered only once the render after the last update is done.
ChatStep(inOrder) ==
    LET Deliver == ~MicrotaskPending /\ (inOrder => Rendered)
    IN  \/ \E i \in DOMAIN prompts : PromptThrows(i)
        \/ (MicrotaskPending \/ Deliver) /\ \E i \in DOMAIN applies : ApplyResolved(i)
        \/ ~MicrotaskPending /\ Rerender
        \/ Deliver /\ \E text \in TypedTexts : TypedSubmit(text)
        \/ Deliver /\ \E tid \in Terminals, a \in NvimActions : NvimActionEvent(tid, a)
        \/ Deliver /\ \E i \in DOMAIN prompts : PromptResolved(i)
        \/ Deliver /\ \E i \in DOMAIN prompts, e \in ErrorData : PromptRejected(i, e)
        \/ Deliver /\ \E d \in {Reply[k] : k \in DOMAIN Reply} : OnContentChunk(d)
        \/ Deliver /\ OnDone
        \/ Deliver /\ \E d \in ErrorData : OnError(d)
        \/ Deliver /\ \E id \in 1..(nextMsgId - 1) : ClickApply(id)
        \/ Deliver /\ \E id \in 1..(nextMsgId - 1) : ClickReject(id)
        \/ Deliver /\ \E i \in DOMAIN applies : ApplyRejected(i)
        \/ Deliver /\ \E v \in BOOLEAN : SetAutoApply(v)

\* Events are delivered at any time, also between a state update and the
\* render that follows it.
NextChat == ChatStep(FALSE)

SpecChat == InitChat /\ [][NextChat]_vars

\* The runs of SpecChat in which every render completes before the next event:
\* no callback runs against the state of an earlier render.
NextChatSeq == ChatStep(TRUE)

SpecChatSeq == InitChat /\ [][NextChatSeq]_vars

\* The chat controller with the events of the agent that it has no case for
NextChatEvents ==
    \/ NextChat
    \/ ~MicrotaskPending /\ \E type \in OtherEventTypes : OnOtherEvent(type)

SpecChatEvents == InitChat /\ [][NextChatEvents]_vars

\* part_016:332-334, an operation of the controller that no component calls
clearMessages ==
    /\ messages' = <<>>
    /\ UNCHANGED <<isStreaming, renderedStreaming, autoApply, autoApplyRef,
                   currentAssistantIdRef, actionTriggeredRef, traceTail, nextMsgId, prompts,
                   applies, agentTurns>>
    /\ UNCHANGED <<bridgeVars, agentVars, now, sessionVars>>

\* The chat controller with every operation it returns, renders in order
NextChatOps ==
    \/ NextChatSeq
    \/ ~MicrotaskPending /\ Rendered /\ clearMessages

SpecChatOps == InitChat /\ [][NextChatOps]_vars

(***************************************************************************)
(* useNvimBridge (part_015) and the start controls of AiChat (part_006).   *)
(* A task is one run of an async function waiting at an await; the         *)
(* continuations that follow a settled promise without leaving the event   *)
(* loop are part of the step, except the one after "await probeHealth()",  *)
(* which is a step of its own (pc "probed") taken before any other step.   *)
(***************************************************************************)
HEALTH_FAILURE_THRESHOLD == 2
NVIM_CONNECT_POLL_MS == 250
NVIM_CONNECT_TIMEOUT_MS == 8000
SYSTEM_DEDUPE_MS == 2000

MaxNow == 8500         \* the clock stops here
MaxPolls == 2          \* retry intervals the clock advances by in a row
MaxAttempts == 3       \* largest attempt token issued
MaxTasks == 2          \* async functions in flight at once

\* What the backend answers for a terminal
CtxOf(tid) == IF tid = "t1" THEN Ctx1 ELSE Ctx2
DiagOf(tid) == IF tid = "t1" THEN <<Diag1>> ELSE <<>>
InvokeError == "nvim not connected"
LaunchMessage == "tmux is not available"
LaunchReplies == {"tmux", "direct", "tmuxUnavailable", "rejected"}

Task(kind, pc, tid, token) ==
    [kind |-> kind, pc |-> pc, tid |-> tid, token |-> token, ctx |-> NoContext,
     reply |-> "none", deadline |-> 0, wake |-> 0, lastError |-> "null",
     successMessage |-> "none", seen |-> "none"]

ProbePending == \E task \in tasks : task.pc \in {"probed", "probed2"}

\* The state the connection steps write, as one record
Current ==
    [status |-> status, context |-> context, diagnostics |-> diagnostics,
     health |-> health, keymapStatus |-> keymapStatus, lastError |-> lastError,
     failedRefreshesRef |-> failedRefreshesRef, isStartingNvim |-> isStartingNvim,
     tmuxFallbackPrompt |-> tmuxFallbackPrompt, messages |-> messages,
     nextMsgId |-> nextMsgId, lastProbe |-> lastProbe]

\* The count of automatic starts after a step that leaves the status st and
\* the terminal tid: it starts again at 0 when the connection key changes
StartsAfter(st, tid) ==
    IF ConnectKeyAt(st, tid) # nvimConnectKey THEN 0 ELSE autoStartsForKey

Commit(s) ==
    /\ status' = s.status
    /\ context' = s.context
    /\ diagnostics' = s.diagnostics
    /\ health' = s.health
    /\ keymapStatus' = s.keymapStatus
    /\ lastError' = s.lastError
    /\ failedRefreshesRef' = s.failedRefreshesRef
    /\ isStartingNvim' = s.isStartingNvim
    /\ tmuxFallbackPrompt' = s.tmuxFallbackPrompt
    /\ messages' = s.messages
    /\ nextMsgId' = s.nextMsgId
    /\ lastProbe' = s.lastProbe
    /\ autoStartsForKey' = StartsAfter(s.status, terminalId)

\* An appendSystemMessage that coalesces whatever time has passed
appendSystemMessage_NoWindow(s, content, kind) ==
    LET prev == s.messages
        last == prev[Len(prev)]
        next == [NewMessage(s.nextMsgId, "system", content) EXCEPT !.systemKind = kind]
    IN  IF /\ Len(prev) > 0
           /\ last.role = "system"
           /\ last.content = content
           /\ last.systemKind = kind
        THEN s
        ELSE [s EXCEPT !.messages = Append(prev, next), !.nextMsgId = @ + 1]

\* part_016:82-108
appendSystemMessage(s, content, kind) ==
    LET prev == s.messages
        last == prev[Len(prev)]
        next == [NewMessage(s.nextMsgId, "system", content) EXCEPT !.systemKind = kind]
    IN  IF /\ Len(prev) > 0
           /\ last.role = "system"
           /\ last.content = content
           /\ last.systemKind = kind
           /\ now - last.timestamp <= SYSTEM_DEDUPE_MS
        THEN s
        ELSE [s EXCEPT !.messages = Append(prev, next), !.nextMsgId = @ + 1]

\* part_015:43-58
applyHealthSnapshot(s, snapshot) ==
    IF ~snapshot.connected
    THEN [s EXCEPT !.health = snapshot, !.status = "Disconnected",
                   !.keymapStatus = "unknown", !.context = NoContext,
                   !.diagnostics = <<>>, !.lastError = snapshot.lastError]
    ELSE [s EXCEPT !.health = snapshot, !.status = "Connected",
                   !.keymapStatus = IF snapshot.keymapsInjected THEN "present" ELSE "missing",
                   !.lastError = "null"]

\* part_015:69-75 and 109-114: the catch of probeHealth and the catch of connect
SetError(s, e) ==
    [s EXCEPT !.status = "Error", !.health = NoHealth, !.keymapStatus = "error",
              !.lastError = e]

\* part_015:63-76: probeHealth after its await; ok = FALSE is a rejected invoke
probeHealthReturns(s, ok, snapshot) ==
    IF ok
    THEN [applyHealthSnapshot(s, snapshot) EXCEPT
             !.lastProbe = IF snapshot.connected THEN "connected" ELSE "disconnected"]
    ELSE SetError(s, InvokeError)

\* part_006:142-146, the finally of startNvim
startFinally(s, task) ==
    IF startAttemptRef = task.token THEN [s EXCEPT !.isStartingNvim = FALSE] ELSE s

\* part_006:136-146, the catch of startNvim; e is String(e)
startCatch(s, task, e) ==
    IF startAttemptRef # task.token
    THEN s
    ELSE startFinally(appendSystemMessage(s, "Failed to start Neovim: " \o e, "status-note"),
                      task)

Ended(s) == [s |-> s, next |-> {}]
Waits(s, task) == [s |-> s, next |-> {task}]

\* A retry loop that gives up only when its attempt is superseded
waitLoop_NoDeadline(s, task) ==
    IF startAttemptRef # task.token
    THEN Ended(startFinally(s, task))
    ELSE Waits(s, [task EXCEPT !.pc = "connect"])

\* part_006:80-96, from the head of the loop of waitForNvimConnection to its
\* next await, or through the catch and finally of startNvim
waitLoop(s, task) ==
    IF now < task.deadline
    THEN IF startAttemptRef # task.token
         THEN Ended(startFinally(s, task))
         ELSE Waits(s, [task EXCEPT !.pc = "connect"])
    ELSE LET reason == IF task.lastError # "null" THEN task.lastError
                       ELSE "Timed out waiting for Neovim to be ready"
         IN Ended(startCatch(s, task, "Error: " \o reason))

\* part_015:109-115 then part_006:89-91: connect fails with e
connectFails(s, task, e) ==
    Waits(SetError(s, e),
          [task EXCEPT !.pc = "sleep", !.lastError = e, !.wake = now + NVIM_CONNECT_POLL_MS])

\* A refresh that counts failures without resetting the counter
fetchFails_NoReset(s, task) ==
    IF task.kind = "effect" THEN Ended([s EXCEPT !.lastError = InvokeError])
    ELSE IF task.kind = "refresh"
    THEN IF s.failedRefreshesRef + 1 >= HEALTH_FAILURE_THRESHOLD
         THEN Waits([s EXCEPT !.lastError = InvokeError, !.failedRefreshesRef = @ + 1],
                    [task EXCEPT !.pc = "probe2"])
         ELSE Ended([s EXCEPT !.lastError = InvokeError, !.failedRefreshesRef = @ + 1])
    ELSE connectFails(s, task, InvokeError)

\* A failed fetchContextAndDiagnostics, by caller: part_015:221-224 (effect),
\* 149-157 (refreshContext), 109-115 (connect)
fetchFails(s, task) ==
    IF task.kind = "effect" THEN Ended([s EXCEPT !.lastError = InvokeError])
    ELSE IF task.kind = "refresh"
    THEN IF s.failedRefreshesRef + 1 >= HEALTH_FAILURE_THRESHOLD
         THEN Waits([s EXCEPT !.lastError = InvokeError, !.failedRefreshesRef = 0],
                    [task EXCEPT !.pc = "probe2"])
         ELSE Ended([s EXCEPT !.lastError = InvokeError, !.failedRefreshesRef = @ + 1])
    ELSE connectFails(s, task, InvokeError)

\* A fetchContextAndDiagnostics that returned, by caller: part_015:220 (effect),
\* 148 (refreshContext), 108 then part_006:87-88 and 142-146 (connect)
fetchDone(s, task) ==
    IF task.kind \in {"effect", "refresh"}
    THEN Ended([s EXCEPT !.failedRefreshesRef = 0])
    ELSE Ended(startFinally(appendSystemMessage(s, task.successMessage, "action-summary"),
                            task))

\* The code after "await probeHealth()", by caller: part_015:217-219 (effect),
\* 141-147 and 156 (refreshContext), 104-108 (connect), 166-168 (reinjectKeymaps)
afterProbe_ReinjectSwapped(s, task) ==
    IF task.pc = "probed2" THEN Ended(s)
    ELSE IF task.kind = "reinject"
    THEN IF task.reply = "connected"
         THEN Ended([s EXCEPT !.keymapStatus =
                         IF s.health.keymapsInjected THEN "missing" ELSE "present"])
         ELSE Ended(s)
    ELSE IF task.reply = "connected" THEN Waits(s, [task EXCEPT !.pc = "getContext"])
    ELSE IF task.kind = "effect" THEN Ended(s)
    ELSE IF task.kind = "refresh" THEN Ended([s EXCEPT !.failedRefreshesRef = 0])
    ELSE connectFails(s, task, "Error: Neovim is not ready yet")

afterProbe(s, task) ==
    IF task.pc = "probed2" THEN Ended(s)
    ELSE IF task.kind = "reinject"
    THEN IF task.reply = "connected"
         THEN Ended([s EXCEPT !.keymapStatus =
                         IF s.health.keymapsInjected THEN "present" ELSE "missing"])
         ELSE Ended(s)
    ELSE IF task.reply = "connected" THEN Waits(s, [task EXCEPT !.pc = "getContext"])
    ELSE IF task.kind = "effect" THEN Ended(s)
    ELSE IF task.kind = "refresh" THEN Ended([s EXCEPT !.failedRefreshesRef = 0])
    ELSE connectFails(s, task, "Error: Neovim is not ready yet")

connRest == <<isStreaming, renderedStreaming, autoApply, autoApplyRef, currentAssistantIdRef,
              actionTriggeredRef, traceTail, prompts, applies, agentTurns, agentVars>>

\* A task takes its step: the state it leaves and the task it becomes
Resume(task, out) ==
    /\ Commit(out.s)
    /\ tasks' = (tasks \ {task}) \cup out.next
    /\ UNCHANGED <<terminalId, startAttemptRef, now, sessionVars, connRest>>

\* part_006:108-110: get_socket_path returned
SocketPathReturns(task, ok) ==
    /\ task \in tasks /\ task.pc = "socketPath" /\ ~ProbePending
    /\ Resume(task, IF ok THEN Waits(Current, [task EXCEPT !.pc = "startInTmux"])
                    ELSE Ended(startCatch(Current, task, InvokeError)))
    /\ UNCHANGED <<nvimUp, keymapsUp>>

\* part_006:111-135: nvim_start_in_tmux returned
StartInTmuxReturns(task, launchMode) ==
    /\ task \in tasks /\ task.pc = "startInTmux" /\ ~ProbePending
    /\ Resume(task,
         IF launchMode = "rejected" THEN Ended(startCatch(Current, task, InvokeError))
         ELSE IF startAttemptRef # task.token THEN Ended(startFinally(Current, task))
         ELSE IF launchMode = "tmuxUnavailable"
         THEN Ended(startFinally(
                  appendSystemMessage([Current EXCEPT !.tmuxFallbackPrompt = LaunchMessage],
                                      LaunchMessage, "status-note"),
                  task))
         ELSE waitLoop([Current EXCEPT !.tmuxFallbackPrompt = "null"],
                       [task EXCEPT
                           !.deadline = now + NVIM_CONNECT_TIMEOUT_MS,
                           !.successMessage =
                               IF launchMode = "tmux"
                               THEN "Started Neovim in tmux and connected to socket."
                               ELSE "Started Neovim and connected to socket."]))
    /\ UNCHANGED <<nvimUp, keymapsUp>>

\* part_015:97-103: nvim_connect returned
ConnectReturns(task, ok) ==
    /\ task \in tasks /\ task.pc = "connect" /\ ~ProbePending
    /\ Resume(task,
         IF ok THEN Waits([Current EXCEPT !.failedRefreshesRef = 0], [task EXCEPT !.pc = "probe"])
         ELSE connectFails(Current, task, InvokeError))
    /\ nvimUp' = IF ok THEN nvimUp \cup {task.tid} ELSE nvimUp
    /\ keymapsUp' = IF ok THEN keymapsUp \cup {task.tid} ELSE keymapsUp

\* part_015:64-76: nvim_probe_health returned to probeHealth
ProbeReturns(task, ok) ==
    /\ task \in tasks /\ task.pc \in {"probe", "probe2"} /\ ~ProbePending
    /\ LET snapshot == Snapshot(task.tid \in nvimUp, task.tid \in keymapsUp)
       IN Resume(task,
            Waits(probeHealthReturns(Current, ok, snapshot),
                  [task EXCEPT
                      !.pc = IF task.pc = "probe" THEN "probed" ELSE "probed2",
                      !.reply = IF ~ok THEN "failed"
                                ELSE IF snapshot.connected THEN "connected"
                                ELSE "disconnected"]))
    /\ UNCHANGED <<nvimUp, keymapsUp>>

\* The caller of probeHealth continues
AfterProbe(task) ==
    /\ task \in tasks /\ task.pc \in {"probed", "probed2"}
    /\ Resume(task, afterProbe(Current, task))
    /\ UNCHANGED <<nvimUp, keymapsUp>>

\* part_015:82-87: nvim_get_context returned
ContextReturns(task) ==
    /\ task \in tasks /\ task.pc = "getContext" /\ ~ProbePending
    /\ Resume(task,
         IF task.tid \in nvimUp
         THEN Waits(Current, [task EXCEPT !.pc = "getDiagnostics", !.ctx = CtxOf(task.tid)])
         ELSE fetchFails(Current, task))
    /\ UNCHANGED <<nvimUp, keymapsUp>>

\* part_015:85-90: nvim_get_diagnostics returned
DiagnosticsReturns(task) ==
    /\ task \in tasks /\ task.pc = "getDiagnostics" /\ ~ProbePending
    /\ Resume(task,
         IF task.tid \in nvimUp
         THEN fetchDone([Current EXCEPT !.context = task.ctx,
                                        !.diagnostics = DiagOf(task.tid)], task)
         ELSE fetchFails(Current, task))
    /\ UNCHANGED <<nvimUp, keymapsUp>>

\* part_006:91: the timer of the retry loop fired
SleepReturns(task) ==
    /\ task \in tasks /\ task.pc = "sleep" /\ ~ProbePending
    /\ now >= task.wake
    /\ Resume(task, waitLoop(Current, task))
    /\ UNCHANGED <<nvimUp, keymapsUp>>

\* part_006:101-110 behind the Start button of the connect card (427-438)
ClickStartNvim ==
    /\ ~ProbePending
    /\ status # "Connected" /\ tmuxFallbackPrompt = "null"
    /\ terminalId # NoTerminal /\ ~isStartingNvim
    /\ startAttemptRef < MaxAttempts
    /\ Cardinality(tasks) < MaxTasks
    /\ startAttemptRef' = startAttemptRef + 1
    /\ isStartingNvim' = TRUE
    /\ tasks' = tasks \cup {Task("start", "socketPath", terminalId, startAttemptRef + 1)}
    /\ UNCHANGED <<terminalId, status, context, diagnostics, health, keymapStatus, lastError,
                   failedRefreshesRef, nvimUp, keymapsUp, lastProbe, autoStartsForKey, tmuxFallbackPrompt,
                   messages, nextMsgId, now, sessionVars, connRest>>

\* The active terminal changes: part_006:56-62, part_015:202-227 and, when
\* Connected, the poll effect part_015:230-250 with its immediate refreshContext
SwitchTerminal(tid) ==
    /\ ~ProbePending
    /\ tid # terminalId
    /\ startAttemptRef < MaxAttempts
    /\ LET started == {Task("effect", "probe", tid, 0)}
                      \cup (IF status = "Connected"
                            THEN {Task("refresh", "probe", tid, 0)} ELSE {})
       IN /\ Cardinality(tasks \cup started) <= MaxTasks
          /\ tasks' = tasks \cup started
    /\ terminalId' = tid
    /\ startAttemptRef' = startAttemptRef + 1
    /\ isStartingNvim' = FALSE
    /\ tmuxFallbackPrompt' = "null"
    /\ failedRefreshesRef' = 0
    /\ autoStartsForKey' = StartsAfter(status, tid)
    /\ terminals' = terminals \cup {tid}
    /\ UNCHANGED <<status, context, diagnostics, health, keymapStatus, lastError,
                   nvimUp, keymapsUp, lastProbe, messages, nextMsgId, now, connRest,
                   isPickerOpen, isClosing, isClosingRef, savedSessions>>

\* part_015:137-140 and 239-242: a poll calls refreshContext
PollTick ==
    /\ ~ProbePending
    /\ terminalId # NoTerminal /\ status = "Connected"
    /\ Cardinality(tasks) < MaxTasks
    /\ Task("refresh", "probe", terminalId, 0) \notin tasks
    /\ tasks' = tasks \cup {Task("refresh", "probe", terminalId, 0)}
    /\ UNCHANGED <<terminalId, status, context, diagnostics, health, keymapStatus, lastError,
                   failedRefreshesRef, nvimUp, keymapsUp, lastProbe, autoStartsForKey, startAttemptRef, isStartingNvim,
                   tmuxFallbackPrompt, messages, nextMsgId, now, sessionVars, connRest>>

\* The Neovim of a terminal exits
NvimExits(tid) ==
    /\ ~ProbePending
    /\ tid \in nvimUp
    /\ nvimUp' = nvimUp \ {tid}
    /\ keymapsUp' = keymapsUp \ {tid}
    /\ UNCHANGED <<terminalId, status, context, diagnostics, health, keymapStatus, lastError,
                   failedRefreshesRef, tasks, lastProbe, autoStartsForKey, startAttemptRef, isStartingNvim,
                   tmuxFallbackPrompt, messages, nextMsgId, now, sessionVars, connRest>>

\* Time passes: by one interval of the retry loop (at most MaxPolls in a row) or
\* by the whole timeout of waitForNvimConnection
Tick(ms) ==
    /\ ~ProbePending
    /\ now + ms <= MaxNow
    /\ ms = NVIM_CONNECT_POLL_MS
          => now % NVIM_CONNECT_TIMEOUT_MS < MaxPolls * NVIM_CONNECT_POLL_MS
    /\ now' = now + ms
    /\ UNCHANGED <<chatVars, bridgeVars, agentVars, sessionVars>>

\* The panel mounts on terminal t1: part_006:56-62 and part_015:202-227 have run
InitConn ==
    /\ messages = <<>>
    /\ isStreaming = FALSE
    /\ renderedStreaming = FALSE
    /\ autoApply = FALSE
    /\ autoApplyRef = FALSE
    /\ currentAssistantIdRef = 0
    /\ actionTriggeredRef = FALSE
    /\ traceTail = "none"
    /\ nextMsgId = 1
    /\ prompts = <<>>
    /\ applies = <<>>
    /\ agentTurns = <<>>
    /\ terminalId = "t1"
    /\ status = "Disconnected"
    /\ context = NoContext
    /\ diagnostics = <<>>
    /\ health = NoHealth
    /\ keymapStatus = "unknown"
    /\ lastError = "null"
    /\ failedRefreshesRef = 0
    /\ tasks = {Task("effect", "probe", "t1", 0)}
    /\ nvimUp \in {{}, {"t1"}}
    /\ keymapsUp = nvimUp
    /\ lastProbe = "none"
    /\ autoStartsForKey = 0
    /\ startAttemptRef = 1
    /\ isStartingNvim = FALSE
    /\ tmuxFallbackPrompt = "null"
    /\ agentStatus = "Stopped"
    /\ renderedAgentStatus = "Stopped"
    /\ sessionId = 0
    /\ permissionQueue = <<>>
    /\ isRespondingPermission = FALSE
    /\ responses = <<>>
    /\ forwarded = <<>>
    /\ nextRequestId = 1
    /\ ensures = <<>>
    /\ autoStartedConnectKeyRef = "null"
    /\ agentError = "null"
    /\ permissionError = "null"
    /\ installState = NoInstall
    /\ now = 0
    /\ isPickerOpen = FALSE
    /\ isClosing = FALSE
    /\ isClosingRef = FALSE
    /\ terminals = {"t1"}
    /\ savedSessions = {}

NextConn ==
    \/ \E task \in tasks, ok \in BOOLEAN : SocketPathReturns(task, ok)
    \/ \E task \in tasks, m \in LaunchReplies : StartInTmuxReturns(task, m)
    \/ \E task \in tasks, ok \in BOOLEAN : ConnectReturns(task, ok)
    \/ \E task \in tasks, ok \in BOOLEAN : ProbeReturns(task, ok)
    \/ \E task \in tasks : AfterProbe(task)
    \/ \E task \in tasks : ContextReturns(task)
    \/ \E task \in tasks : DiagnosticsReturns(task)
    \/ \E task \in tasks : SleepReturns(task)
    \/ ClickStartNvim
    \/ \E tid \in Terminals : SwitchTerminal(tid)
    \/ PollTick
    \/ \E tid \in Terminals : NvimExits(tid)
    \/ \E ms \in {NVIM_CONNECT_POLL_MS, NVIM_CONNECT_TIMEOUT_MS} : Tick(ms)

SpecConn == InitConn /\ [][NextConn]_vars

\* part_006:91: time passes until the timer of a sleeping retry loop is due
TimerDue(task) ==
    /\ task \in tasks /\ task.pc = "sleep" /\ ~ProbePending
    /\ now < task.wake /\ task.wake <= MaxNow + NVIM_CONNECT_POLL_MS
    /\ now' = task.wake
    /\ UNCHANGED <<chatVars, bridgeVars, agentVars, sessionVars>>

\* The steps the runtime takes by itself: replies of the backend, continuations
\* of settled promises and timers
StartSystemStep ==
    \/ \E task \in tasks, ok \in BOOLEAN : SocketPathReturns(task, ok)
    \/ \E task \in tasks, m \in LaunchReplies \ {"direct"} : StartInTmuxReturns(task, m)
    \/ \E task \in tasks, ok \in BOOLEAN : ConnectReturns(task, ok)
    \/ \E task \in tasks, ok \in BOOLEAN : ProbeReturns(task, ok)
    \/ \E task \in tasks : AfterProbe(task)
    \/ \E task \in tasks : ContextReturns(task)
    \/ \E task \in tasks : DiagnosticsReturns(task)
    \/ \E task \in tasks : SleepReturns(task)
    \/ \E task \in tasks : TimerDue(task)

\* Starting Neovim while the editor, once up, stays up and no context poll runs
NextStart ==
    \/ StartSystemStep
    \/ ClickStartNvim
    \/ \E tid \in Terminals : SwitchTerminal(tid)
    \/ Tick(NVIM_CONNECT_TIMEOUT_MS)

\* Every invoke is answered, every continuation runs and every timer fires
SpecStart == InitConn /\ [][NextStart]_vars /\ WF_vars(StartSystemStep)

\* part_015:121-123: disconnect, an operation of the bridge that no component
\* calls, up to its await
disconnect ==
    /\ ~ProbePending
    /\ terminalId # NoTerminal
    /\ Cardinality(tasks) < MaxTasks
    /\ Task("disconnect", "disconnect", terminalId, 0) \notin tasks
    /\ tasks' = tasks \cup {Task("disconnect", "disconnect", terminalId, 0)}
    /\ UNCHANGED <<terminalId, status, context, diagnostics, health, keymapStatus, lastError,
                   failedRefreshesRef, nvimUp, keymapsUp, lastProbe, autoStartsForKey, startAttemptRef, isStartingNvim,
                   tmuxFallbackPrompt, messages, nextMsgId, now, sessionVars, connRest>>

\* part_015:125-131, what disconnect sets once nvim_disconnect resolved
disconnected(s) ==
    [s EXCEPT !.failedRefreshesRef = 0, !.status = "Disconnected", !.health = NoHealth,
              !.keymapStatus = "unknown", !.lastError = "null", !.context = NoContext,
              !.diagnostics = <<>>]

\* part_015:124-134: nvim_disconnect returned; ok = FALSE is a rejected invoke
DisconnectReturns(task, ok) ==
    /\ task \in tasks /\ task.pc = "disconnect" /\ ~ProbePending
    /\ Resume(task, IF ok THEN Ended(disconnected(Current)) ELSE Ended(Current))
    /\ nvimUp' = IF ok THEN nvimUp \ {task.tid} ELSE nvimUp
    /\ keymapsUp' = IF ok THEN keymapsUp \ {task.tid} ELSE keymapsUp

\* part_015:161-164: reinjectKeymaps, called with the KeymapStatus the caller
\* sees, up to its first await
reinjectKeymaps ==
    /\ ~ProbePending
    /\ terminalId # NoTerminal
    /\ Cardinality(tasks) < MaxTasks
    /\ ~\E task \in tasks : task.kind = "reinject"
    /\ tasks' = tasks \cup {[Task("reinject", "reinject", terminalId, 0)
                                EXCEPT !.seen = keymapStatus]}
    /\ UNCHANGED <<terminalId, status, context, diagnostics, health, keymapStatus, lastError,
                   failedRefreshesRef, nvimUp, keymapsUp, lastProbe, autoStartsForKey, startAttemptRef,
                   isStartingNvim, tmuxFallbackPrompt, messages, nextMsgId, now, sessionVars, connRest>>

\* part_015:169-174, the catch of reinjectKeymaps, which rethrows
reinjectCatch(s, e) ==
    [s EXCEPT !.keymapStatus = "error", !.lastError = e]

\* part_015:164-165 and 169-174: nvim_reinject_keymaps returned; the backend
\* injects the keymaps into the Neovim it is connected to and rejects the call
\* when it is connected to none
ReinjectReturns(task, ok) ==
    /\ task \in tasks /\ task.pc = "reinject" /\ ~ProbePending
    /\ ok => task.tid \in nvimUp
    /\ Resume(task, IF ok THEN Waits(Current, [task EXCEPT !.pc = "probe"])
                    ELSE Ended(reinjectCatch(Current, InvokeError)))
    /\ keymapsUp' = IF ok THEN keymapsUp \cup {task.tid} ELSE keymapsUp
    /\ UNCHANGED nvimUp

\* The keymaps of a running Neovim are removed (its configuration is reloaded)
KeymapsLost(tid) ==
    /\ ~ProbePending
    /\ tid \in keymapsUp
    /\ keymapsUp' = keymapsUp \ {tid}
    /\ UNCHANGED <<terminalId, status, context, diagnostics, health, keymapStatus, lastError,
                   failedRefreshesRef, tasks, nvimUp, lastProbe, autoStartsForKey, startAttemptRef,
                   isStartingNvim, tmuxFallbackPrompt, messages, nextMsgId, now, sessionVars, connRest>>

\* The bridge of one terminal with its polls, its disconnect operation and its
\* keymap repair
NextBridgeOps ==
    \/ \E task \in tasks, ok \in BOOLEAN : ProbeReturns(task, ok)
    \/ \E task \in tasks : AfterProbe(task)
    \/ \E task \in tasks : ContextReturns(task)
    \/ \E task \in tasks : DiagnosticsReturns(task)
    \/ PollTick
    \/ \E tid \in Terminals : NvimExits(tid)
    \/ disconnect
    \/ \E task \in tasks, ok \in BOOLEAN : DisconnectReturns(task, ok)
    \/ reinjectKeymaps
    \/ \E task \in tasks, ok \in BOOLEAN : ReinjectReturns(task, ok)
    \/ \E tid \in Terminals : KeymapsLost(tid)

SpecBridgeOps == InitConn /\ [][NextBridgeOps]_vars

(***************************************************************************)
(* useAcpAgent (src/hooks/useAcpAgent.ts) and the agent and permission     *)
(* cards of AiChat (part_006).                                             *)
(***************************************************************************)
MaxRequests == 3       \* permission requests the agent raises in one run
MaxResponds == 2       \* respondPermission calls in one run
MaxEnsures == 2        \* ensureAgentSession runs in flight at once
MaxNotes == 2          \* system messages after which stopAgent is no longer called

NoRequest == [null |-> TRUE]
NoOption == "undefined"
PermissionOptions ==
    <<[optionId |-> "o1", name |-> "Allow", kind |-> "allow_once"],
      [optionId |-> "o2", name |-> "Reject", kind |-> "reject_once"],
      [optionId |-> "o3", name |-> "Ask", kind |-> "other"]>>
OptionIds == {PermissionOptions[i].optionId : i \in DOMAIN PermissionOptions}
RequestId(n) == "r" \o NatToStr(n)
PermissionRequest(n, tid) ==
    [requestId |-> RequestId(n), terminalId |-> tid, options |-> PermissionOptions]

\* useAcpAgent.ts:45
Enqueue(queue, request) == Append(queue, request)

\* A respond that drops the head of the queue whatever the requestId
RemoveRequest_Head(queue, requestId) ==
    IF queue = <<>> THEN queue ELSE Tail(queue)

\* useAcpAgent.ts:142
RemoveRequest(queue, requestId) ==
    LET Other(req) == req.requestId # requestId
    IN SelectSeq(queue, Other)

\* useAcpAgent.ts:152
currentPermission ==
    IF permissionQueue = <<>> THEN NoRequest ELSE Head(permissionQueue)

\* part_006:241-245
permissionRequest ==
    IF /\ currentPermission # NoRequest
       /\ currentPermission.terminalId \in {NoTerminal, terminalId}
    THEN currentPermission
    ELSE NoRequest

\* part_006:304-306
FindOption(request, optionId) ==
    IF \E i \in DOMAIN request.options : request.options[i].optionId = optionId
    THEN request.options[CHOOSE i \in DOMAIN request.options :
                             request.options[i].optionId = optionId]
    ELSE NoRequest

\* kind.toLowerCase().includes(word), for the kinds of the model
KindIncludes(kind, word) ==
    \/ word = "allow" /\ kind \in {"allow_once", "allow_always"}
    \/ word = "reject" /\ kind \in {"reject_once", "reject_always"}

\* part_006:308-321
ResponseMessage(optionId, option) ==
    IF optionId = NoOption THEN "Cancelled permission request."
    ELSE IF option # NoRequest
    THEN IF KindIncludes(option.kind, "allow") THEN "Accepted: " \o option.name \o "."
         ELSE IF KindIncludes(option.kind, "reject") THEN "Rejected: " \o option.name \o "."
         ELSE "Permission response: " \o option.name \o "."
    ELSE "Submitted permission response."

\* useAcpAgent.ts:138-141: what the invoke hands to the backend
RespondArgs(requestId, optionId) ==
    [requestId |-> requestId, optionId |-> IF optionId = NoOption THEN "null" ELSE optionId]

agentRest == <<isStreaming, renderedStreaming, autoApply, autoApplyRef, currentAssistantIdRef,
               actionTriggeredRef, traceTail, prompts, applies, agentTurns, bridgeVars, now,
               sessionVars>>

RespondsLeft == Len(responses) + Len(forwarded) < MaxResponds

\* useAcpAgent.ts:41-47: the agent asks for a permission
PermissionRequestArrives(tid) ==
    /\ agentStatus = "Running"
    /\ nextRequestId <= MaxRequests
    /\ permissionQueue' = Enqueue(permissionQueue, PermissionRequest(nextRequestId, tid))
    /\ nextRequestId' = nextRequestId + 1
    /\ UNCHANGED <<agentStatus, renderedAgentStatus, sessionId, isRespondingPermission, responses, forwarded,
                   agentError, permissionError, installState, ensures, autoStartedConnectKeyRef,
                   messages, nextMsgId, agentRest>>

\* A response that takes the request off the queue before the agent has it
ClickPermission_Optimistic(optionId) ==
    /\ permissionRequest # NoRequest /\ ~isRespondingPermission
    /\ RespondsLeft
    /\ permissionError' = "null"
    /\ isRespondingPermission' = TRUE
    /\ permissionQueue' = RemoveRequest(permissionQueue, permissionRequest.requestId)
    /\ responses' = Append(responses,
                           [requestId |-> permissionRequest.requestId, optionId |-> optionId,
                            option |-> IF optionId = NoOption THEN NoRequest
                                       ELSE FindOption(permissionRequest, optionId),
                            panel |-> TRUE])
    /\ UNCHANGED <<agentStatus, renderedAgentStatus, sessionId, forwarded, nextRequestId, autoStartedConnectKeyRef,
                   agentError, installState, ensures, messages, nextMsgId, agentRest>>

\* part_006:298-307: a button of the permission card, up to the await
ClickPermission(optionId) ==
    /\ permissionRequest # NoRequest /\ ~isRespondingPermission
    /\ RespondsLeft
    /\ permissionError' = "null"
    /\ isRespondingPermission' = TRUE
    /\ responses' = Append(responses,
                           [requestId |-> permissionRequest.requestId, optionId |-> optionId,
                            option |-> IF optionId = NoOption THEN NoRequest
                                       ELSE FindOption(permissionRequest, optionId),
                            panel |-> TRUE])
    /\ UNCHANGED <<agentStatus, renderedAgentStatus, sessionId, permissionQueue, forwarded, nextRequestId, autoStartedConnectKeyRef,
                   agentError, installState, ensures, messages, nextMsgId, agentRest>>

\* useAcpAgent.ts:136-141: respondPermission called by another user of the hook
respondPermission(requestId, optionId) ==
    /\ RespondsLeft
    /\ responses' = Append(responses,
                           [requestId |-> requestId, optionId |-> optionId,
                            option |-> NoRequest, panel |-> FALSE])
    /\ UNCHANGED <<agentStatus, renderedAgentStatus, sessionId, permissionQueue, isRespondingPermission, forwarded,
                   nextRequestId, autoStartedConnectKeyRef, agentError, permissionError, installState, ensures, messages, nextMsgId,
                   agentRest>>

\* useAcpAgent.ts:142 and part_006:308-327: acp_respond_permission_request resolved
RespondResolved(i) ==
    /\ i \in DOMAIN responses
    /\ forwarded' = Append(forwarded, RespondArgs(responses[i].requestId, responses[i].optionId))
    /\ permissionQueue' = RemoveRequest(permissionQueue, responses[i].requestId)
    /\ responses' = RemoveAt(responses, i)
    /\ IF responses[i].panel
       THEN /\ Commit(appendSystemMessage(
                          Current,
                          ResponseMessage(responses[i].optionId, responses[i].option),
                          "action-summary"))
            /\ isRespondingPermission' = FALSE
       ELSE Commit(Current) /\ UNCHANGED isRespondingPermission
    /\ UNCHANGED <<agentStatus, renderedAgentStatus, sessionId, nextRequestId, autoStartedConnectKeyRef, agentError, permissionError,
                   installState, ensures,
                   terminalId, tasks, nvimUp, keymapsUp, startAttemptRef, now, sessionVars,
                   isStreaming, renderedStreaming, autoApply, autoApplyRef,
                   currentAssistantIdRef, actionTriggeredRef, traceTail, prompts, applies,
                   agentTurns>>

\* part_006:322-327: acp_respond_permission_request was rejected
RespondRejected(i, e) ==
    /\ i \in DOMAIN responses
    /\ responses' = RemoveAt(responses, i)
    /\ IF responses[i].panel
       THEN /\ Commit(appendSystemMessage(
                          Current, "Failed to submit permission response: " \o e,
                          "status-note"))
            /\ permissionError' = e
            /\ isRespondingPermission' = FALSE
       ELSE Commit(Current) /\ UNCHANGED <<permissionError, isRespondingPermission>>
    /\ UNCHANGED <<agentStatus, renderedAgentStatus, sessionId, permissionQueue, forwarded, nextRequestId, autoStartedConnectKeyRef,
                   agentError, installState, ensures,
                   terminalId, tasks, nvimUp, keymapsUp, startAttemptRef, now, sessionVars,
                   isStreaming, renderedStreaming, autoApply, autoApplyRef,
                   currentAssistantIdRef, actionTriggeredRef, traceTail, prompts, applies,
                   agentTurns>>

\* What acp_create_session answers for a terminal
\* What the installer reports (types/acp.ts, part_012:10-25)
InstallReports ==
    {[phase |-> "downloading", message |-> "Downloading codex-acp"],
     [phase |-> "error", message |-> "Download failed"],
     [phase |-> "done", message |-> "Installed"]}

\* useAcpAgent.ts:88, the status { Error: String(e) }
ErrorStatus(e) == "Error(" \o e \o ")"

\* A catch of startAgent that clears every install status
startAgentCatch_ClearAll(prev) == NoInstall

\* useAcpAgent.ts:89
startAgentCatch(prev) == IF prev.phase = "error" THEN prev ELSE NoInstall

SessionOf(tid) == IF tid = "t1" THEN 1 ELSE 2

EnsuresLeft == Len(ensures) < MaxEnsures

\* useAcpAgent.ts:76-83: startAgent up to its await, called by
\* ensureAgentSession (part_006:185-188)
startAgentCalled(source) ==
    /\ agentStatus' = "Starting"
    /\ permissionQueue' = <<>>
    /\ installState' = StartingInstall
    /\ ensures' = Append(ensures, [pc |-> "startAgent", source |-> source,
                                    tid |-> terminalId, started |-> TRUE])

\* part_006:180-187 behind the Start Agent button (518-537): the card and the
\* guard of ensureAgentSession read the acp.status of the committed render; a
\* DOM event, so the render that follows is flushed with it.
ClickStartAgent ==
    /\ permissionRequest = NoRequest /\ tmuxFallbackPrompt = "null"
    /\ isConnected /\ keymapStatus \notin {"missing", "error"}
    /\ renderedAgentStatus \notin {"Running", "Starting"}
    /\ terminalId # NoTerminal
    /\ EnsuresLeft
    /\ agentError' = "null"
    /\ startAgentCalled("manual")
    /\ renderedAgentStatus' = "Starting"
    /\ UNCHANGED <<sessionId, isRespondingPermission, responses, forwarded, nextRequestId, autoStartedConnectKeyRef,
                   permissionError, messages, nextMsgId, agentRest>>

\* The render that follows a status update made outside a DOM event handler
RerenderAgent ==
    /\ renderedAgentStatus # agentStatus
    /\ renderedAgentStatus' = agentStatus
    /\ UNCHANGED <<agentStatus, sessionId, permissionQueue, isRespondingPermission, responses,
                   forwarded, nextRequestId, autoStartedConnectKeyRef, ensures, agentError, permissionError, installState, messages,
                   nextMsgId, agentRest>>

\* part_006:208-211, the catch of ensureAgentSession
ensureCatch(e) ==
    /\ agentError' = e
    /\ Commit(appendSystemMessage(Current, "Failed to ensure agent session: " \o e,
                                  "status-note"))

\* An auto-start that records its connection key only when it succeeded
autoStartFinally_OnSuccess(ensure, ok) ==
    IF ensure.source = "auto" /\ ok THEN ConnectKey(ensure.tid) ELSE autoStartedConnectKeyRef

\* part_006:290-293, the finally of the auto-start effect, which follows the
\* end of the ensureAgentSession("auto") it awaited: the key it records is the
\* key of the render that started it
autoStartFinally(ensure, ok) ==
    IF ensure.source = "auto" THEN ConnectKey(ensure.tid) ELSE autoStartedConnectKeyRef

\* useAcpAgent.ts:84-90 then part_006:188-197: acp_start_agent returned
StartAgentReturns(i, ok) ==
    /\ i \in DOMAIN ensures /\ ensures[i].pc = "startAgent"
    /\ IF ok
       THEN /\ agentStatus' = "Running"
            /\ installState' = NoInstall
            /\ ensures' = [ensures EXCEPT ![i].pc = "createSession"]
            /\ Commit(Current)
            /\ UNCHANGED <<agentError, autoStartedConnectKeyRef>>
       ELSE /\ agentStatus' = ErrorStatus(InvokeError)
            /\ installState' = startAgentCatch(installState)
            /\ ensures' = RemoveAt(ensures, i)
            /\ ensureCatch(InvokeError)
            /\ autoStartedConnectKeyRef' = autoStartFinally(ensures[i], FALSE)
    /\ UNCHANGED <<renderedAgentStatus, sessionId, permissionQueue, isRespondingPermission,
                   responses, forwarded, nextRequestId, permissionError,
                   terminalId, tasks, nvimUp, keymapsUp, startAttemptRef, now, sessionVars,
                   isStreaming, renderedStreaming, autoApply, autoApplyRef,
                   currentAssistantIdRef, actionTriggeredRef, traceTail, prompts, applies,
                   agentTurns>>

\* part_006:199-207: what ensureAgentSession reports, "none" for nothing
EnsureMessage(source, started) ==
    IF source = "manual"
    THEN IF started THEN "Started codex-acp agent and created session."
         ELSE "Created agent session for current Neovim terminal."
    ELSE IF started THEN "Auto-started codex-acp agent and created session."
         ELSE "none"

\* useAcpAgent.ts:108-113 then part_006:199-211: acp_create_session returned
CreateSessionReturns(i, ok) ==
    /\ i \in DOMAIN ensures /\ ensures[i].pc = "createSession"
    /\ ensures' = RemoveAt(ensures, i)
    /\ autoStartedConnectKeyRef' = autoStartFinally(ensures[i], ok)
    /\ IF ok
       THEN /\ sessionId' = SessionOf(ensures[i].tid)
            /\ LET m == EnsureMessage(ensures[i].source, ensures[i].started)
               IN Commit(IF m = "none" THEN Current
                         ELSE appendSystemMessage(Current, m, "action-summary"))
            /\ UNCHANGED agentError
       ELSE /\ ensureCatch(InvokeError)
            /\ UNCHANGED sessionId
    /\ UNCHANGED <<agentStatus, renderedAgentStatus, permissionQueue, isRespondingPermission,
                   responses, forwarded, nextRequestId, permissionError, installState,
                   terminalId, tasks, nvimUp, keymapsUp, startAttemptRef, now, sessionVars,
                   isStreaming, renderedStreaming, autoApply, autoApplyRef,
                   currentAssistantIdRef, actionTriggeredRef, traceTail, prompts, applies,
                   agentTurns>>

\* The editor is connected and the auto-start effect of part_006:273-296 has
\* called ensureAgentSession("auto"), which waits for acp_start_agent;
\* "rendered" is the acp.status of the committed render
InitAgentAt(rendered) ==
    /\ messages = <<>>
    /\ isStreaming = FALSE
    /\ renderedStreaming = FALSE
    /\ autoApply = FALSE
    /\ autoApplyRef = FALSE
    /\ currentAssistantIdRef = 0
    /\ actionTriggeredRef = FALSE
    /\ traceTail = "none"
    /\ nextMsgId = 1
    /\ prompts = <<>>
    /\ applies = <<>>
    /\ agentTurns = <<>>
    /\ terminalId = "t1"
    /\ status = "Connected"
    /\ context = Ctx1
    /\ diagnostics = <<Diag1>>
    /\ health = Snapshot(TRUE, TRUE)
    /\ keymapStatus = "present"
    /\ lastError = "null"
    /\ failedRefreshesRef = 0
    /\ tasks = {}
    /\ nvimUp = {"t1"}
    /\ keymapsUp = {"t1"}
    /\ lastProbe = "connected"
    /\ autoStartsForKey = 1
    /\ startAttemptRef = 1
    /\ isStartingNvim = FALSE
    /\ tmuxFallbackPrompt = "null"
    /\ agentStatus = "Starting"
    /\ renderedAgentStatus = rendered
    /\ sessionId = 0
    /\ permissionQueue = <<>>
    /\ isRespondingPermission = FALSE
    /\ responses = <<>>
    /\ forwarded = <<>>
    /\ nextRequestId = 1
    /\ agentError = "null"
    /\ permissionError = "null"
    /\ installState = StartingInstall
    /\ ensures = <<[pc |-> "startAgent", source |-> "auto", tid |-> "t1", started |-> TRUE]>>
    /\ autoStartedConnectKeyRef = "null"
    /\ now = 0
    /\ isPickerOpen = FALSE
    /\ isClosing = FALSE
    /\ isClosingRef = FALSE
    /\ terminals = {"t1"}
    /\ savedSessions = {}

\* The render that shows the status Starting has been committed
InitAgent == InitAgentAt("Starting")

NextAgent ==
    \/ \E tid \in {NoTerminal, "t2"} : PermissionRequestArrives(tid)
    \/ \E o \in OptionIds \cup {NoOption} : ClickPermission(o)
    \/ \E n \in 1..MaxRequests : respondPermission(RequestId(n), NoOption)
    \/ \E i \in DOMAIN responses : RespondResolved(i)
    \/ \E i \in DOMAIN responses, e \in ErrorData : RespondRejected(i, e)
    \/ ClickStartAgent
    \/ RerenderAgent
    \/ \E i \in DOMAIN ensures, ok \in BOOLEAN : StartAgentReturns(i, ok)
    \/ \E i \in DOMAIN ensures, ok \in BOOLEAN : CreateSessionReturns(i, ok)

SpecAgent == InitAgent /\ [][NextAgent]_vars

StopsLeft == nextMsgId <= MaxNotes

\* useAcpAgent.ts:95-97: stopAgent, an operation of the hook that no component
\* calls, up to its await
stopAgent ==
    /\ StopsLeft
    /\ Task("stopAgent", "stopAgent", NoTerminal, 0) \notin tasks
    /\ tasks' = tasks \cup {Task("stopAgent", "stopAgent", NoTerminal, 0)}
    /\ UNCHANGED <<chatVars, agentVars, now, sessionVars, terminalId, status, context, diagnostics, health,
                   keymapStatus, lastError, failedRefreshesRef, nvimUp, keymapsUp, lastProbe, autoStartsForKey,
                   startAttemptRef, isStartingNvim, tmuxFallbackPrompt>>

\* useAcpAgent.ts:98-104: acp_stop_agent returned; ok = FALSE is a rejected invoke
StopAgentReturns(task, ok) ==
    /\ task \in tasks /\ task.kind = "stopAgent"
    /\ tasks' = tasks \ {task}
    /\ IF ok
       THEN /\ agentStatus' = "Stopped"
            /\ installState' = NoInstall
            /\ sessionId' = 0
            /\ permissionQueue' = <<>>
       ELSE UNCHANGED <<agentStatus, installState, sessionId, permissionQueue>>
    /\ UNCHANGED <<renderedAgentStatus, isRespondingPermission, responses, forwarded,
                   nextRequestId, autoStartedConnectKeyRef, ensures, agentError, permissionError>>
    /\ UNCHANGED <<chatVars, now, sessionVars, terminalId, status, context, diagnostics, health,
                   keymapStatus, lastError, failedRefreshesRef, nvimUp, keymapsUp, lastProbe, autoStartsForKey,
                   startAttemptRef, isStartingNvim, tmuxFallbackPrompt>>

\* useAcpAgent.ts:32-40, the acp-install-status listener; the installer
\* reports while acp_start_agent runs
InstallStatusArrives(next) ==
    /\ \E i \in DOMAIN ensures : ensures[i].pc = "startAgent"
    /\ installState' = IF next.phase = "done" THEN NoInstall ELSE next
    /\ UNCHANGED <<agentStatus, renderedAgentStatus, sessionId, permissionQueue,
                   isRespondingPermission, responses, forwarded, nextRequestId, autoStartedConnectKeyRef, ensures,
                   agentError, permissionError>>
    /\ UNCHANGED <<chatVars, bridgeVars, now, sessionVars>>

\* The auto-start effect has called ensureAgentSession("auto"); the render that
\* shows the status Starting is still to come
InitAgentOps == InitAgentAt("Stopped")

\* The start and stop operations of the agent, as the panel and any other user
\* of the hook call them
NextAgentOps ==
    \/ ClickStartAgent
    \/ RerenderAgent
    \/ \E i \in DOMAIN ensures, ok \in BOOLEAN : StartAgentReturns(i, ok)
    \/ \E i \in DOMAIN ensures, ok \in BOOLEAN : CreateSessionReturns(i, ok)
    \/ \E tid \in {NoTerminal, "t2"} : PermissionRequestArrives(tid)
    \/ stopAgent
    \/ \E task \in tasks, ok \in BOOLEAN : StopAgentReturns(task, ok)
    \/ \E next \in InstallReports : InstallStatusArrives(next)

SpecAgentOps == InitAgentOps /\ [][NextAgentOps]_vars

(***************************************************************************)
(* App (src/App.tsx:56-57): one bridge, one chat controller and one agent   *)
(* hook serve whichever terminal is active.                                *)
(***************************************************************************)
\* part_006:283-289, autoStartInFlightRef
AutoStartInFlight == \E i \in DOMAIN ensures : ensures[i].source = "auto"

\* part_006:287-289 with ensureAgentSession("auto") (180-190) up to its first
\* await, once the guards of the effect let it start for terminal tid; the
\* closure reads the acp.status of the committed render.  "flushed" says that
\* the render after setStatus("Starting") is committed with the step.
autoStart(tid, flushed) ==
    /\ agentError' = "null"
    /\ autoStartsForKey' = StartsAfter(status, tid) + 1
    /\ IF renderedAgentStatus = "Running"
       THEN /\ ensures' = Append(ensures, [pc |-> "createSession", source |-> "auto",
                                            tid |-> tid, started |-> FALSE])
            /\ UNCHANGED <<agentStatus, renderedAgentStatus, permissionQueue, installState>>
       ELSE /\ ensures' = Append(ensures, [pc |-> "startAgent", source |-> "auto",
                                            tid |-> tid, started |-> TRUE])
            /\ agentStatus' = "Starting"
            /\ renderedAgentStatus' = IF flushed THEN "Starting" ELSE renderedAgentStatus
            /\ permissionQueue' = <<>>
            /\ installState' = StartingInstall

\* part_006:279-285: the guards of the auto-start effect for a connected key
autoStartSkips(key) ==
    \/ autoStartedConnectKeyRef = key
    \/ AutoStartInFlight
    \/ renderedAgentStatus = "Starting"

\* useTerminalManager.ts:14-24 while the editor is Connected and no auto-start
\* is in flight, with the effects of the render it causes: part_006:56-62,
\* part_015:202-227, the poll effect part_015:230-250 and the auto-start effect
\* part_006:273-296, whose connection key changes with the terminal.  A DOM
\* event: the render and its effects are flushed with it.
switchToFolder(tid) ==
    /\ tid # terminalId
    /\ isConnected /\ ~AutoStartInFlight /\ ~ProbePending
    /\ startAttemptRef < MaxAttempts
    /\ EnsuresLeft
    /\ LET started == {Task("effect", "probe", tid, 0), Task("refresh", "probe", tid, 0)}
       IN /\ Cardinality(tasks \cup started) <= MaxTasks
          /\ tasks' = tasks \cup started
    /\ terminalId' = tid
    /\ startAttemptRef' = startAttemptRef + 1
    /\ isStartingNvim' = FALSE
    /\ tmuxFallbackPrompt' = "null"
    /\ failedRefreshesRef' = 0
    /\ terminals' = terminals \cup {tid}
    /\ IF autoStartSkips(ConnectKey(tid))
       THEN /\ autoStartsForKey' = StartsAfter(status, tid)
            /\ UNCHANGED <<agentStatus, renderedAgentStatus, permissionQueue, ensures,
                           agentError, installState>>
       ELSE autoStart(tid, TRUE)
    /\ UNCHANGED <<status, context, diagnostics, health, keymapStatus, lastError, nvimUp, keymapsUp,
                   lastProbe, sessionId, isRespondingPermission, responses, forwarded,
                   nextRequestId, autoStartedConnectKeyRef, permissionError, chatVars, now,
                   isPickerOpen, isClosing, isClosingRef, savedSessions>>

\* part_006:273-296: the auto-start effect after a render that no DOM event
\* caused
AutoStartEffect ==
    /\ ~ProbePending
    /\ IF nvimConnectKey = "null"
       THEN /\ autoStartedConnectKeyRef # "null"
            /\ autoStartedConnectKeyRef' = "null"
            /\ UNCHANGED <<agentStatus, renderedAgentStatus, permissionQueue, ensures,
                           agentError, installState, autoStartsForKey>>
       ELSE /\ ~autoStartSkips(nvimConnectKey)
            /\ EnsuresLeft
            /\ autoStart(terminalId, FALSE)
            /\ UNCHANGED autoStartedConnectKeyRef
    /\ UNCHANGED <<sessionId, isRespondingPermission, responses, forwarded, nextRequestId,
                   permissionError, chatVars, now, sessionVars,
                   terminalId, status, context, diagnostics, health, keymapStatus, lastError,
                   failedRefreshesRef, tasks, nvimUp, keymapsUp, lastProbe, startAttemptRef,
                   isStartingNvim, tmuxFallbackPrompt>>

\* The panel from its mount on t1: the editor's probes and fetches, terminal
\* switches, the auto-start effect and the Start Agent button
NextAutoStart ==
    \/ \E task \in tasks, ok \in BOOLEAN : ProbeReturns(task, ok)
    \/ \E task \in tasks : AfterProbe(task)
    \/ \E task \in tasks : ContextReturns(task)
    \/ \E task \in tasks : DiagnosticsReturns(task)
    \/ \E tid \in Terminals : SwitchTerminal(tid)
    \/ AutoStartEffect
    \/ RerenderAgent
    \/ ClickStartAgent
    \/ \E i \in DOMAIN ensures, ok \in BOOLEAN : StartAgentReturns(i, ok)
    \/ \E i \in DOMAIN ensures, ok \in BOOLEAN : CreateSessionReturns(i, ok)

SpecAutoStart == InitConn /\ [][NextAutoStart]_vars

(***************************************************************************)
(* useSessionManager and useTerminalManager: closing the active session.    *)
(***************************************************************************)
CloseCalls == {task \in tasks : task.kind = "close"}

\* useSessionManager.ts:32: whether a call of closeSession does anything
closeSessionAccepts == terminalId # NoTerminal /\ ~isClosingRef

\* useSessionManager.ts:31-41: closeSession (the Close button of App.tsx:233 or
\* the keyboard shortcut of App.tsx:174-191) up to its first await; a call that
\* is not accepted returns at once
closeSession ==
    /\ ~ProbePending
    /\ IF closeSessionAccepts
       THEN /\ Cardinality(tasks) < MaxTasks
            /\ isClosingRef' = TRUE
            /\ isClosing' = TRUE
            /\ tasks' = tasks \cup {Task("close", "screenshot", terminalId, 0)}
       ELSE UNCHANGED <<isClosingRef, isClosing, tasks>>
    /\ UNCHANGED <<terminalId, status, context, diagnostics, health, keymapStatus, lastError,
                   failedRefreshesRef, nvimUp, keymapsUp, lastProbe, autoStartsForKey,
                   startAttemptRef, isStartingNvim, tmuxFallbackPrompt, chatVars, agentVars,
                   now, isPickerOpen, terminals, savedSessions>>

\* A call of closeSession moves to its next await, or ends with next = {}
CloseMoves(task, next) ==
    /\ tasks' = (tasks \ {task}) \cup next
    /\ UNCHANGED <<chatVars, agentVars, now>>

\* What a step of closeSession leaves alone in the bridge
CloseKeepsBridge ==
    UNCHANGED <<terminalId, status, context, diagnostics, health, keymapStatus, lastError,
                failedRefreshesRef, lastProbe, autoStartsForKey, startAttemptRef,
                isStartingNvim, tmuxFallbackPrompt>>

\* A finally that releases the guard only when the call succeeded
closeFinally_OnSuccess(ok) ==
    /\ isClosingRef' = ~ok
    /\ isClosing' = ~ok

\* useSessionManager.ts:52-55, the finally of closeSession
closeFinally(ok) ==
    /\ isClosingRef' = FALSE
    /\ isClosing' = FALSE

\* useSessionManager.ts:42-46: ghostty_screenshot returned; a failure is only
\* logged
ScreenshotReturns(task, ok) ==
    /\ task \in tasks /\ task.kind = "close" /\ task.pc = "screenshot" /\ ~ProbePending
    /\ CloseMoves(task, {[task EXCEPT !.pc = "saveSession"]})
    /\ CloseKeepsBridge
    /\ UNCHANGED <<nvimUp, keymapsUp, sessionVars>>

\* useSessionManager.ts:48 and 52-55: db_update_folder_session returned
SaveSessionReturns(task, ok) ==
    /\ task \in tasks /\ task.kind = "close" /\ task.pc = "saveSession" /\ ~ProbePending
    /\ IF ok
       THEN /\ CloseMoves(task, {[task EXCEPT !.pc = "nvimDisconnect"]})
            /\ savedSessions' = savedSessions \cup {task.tid}
            /\ UNCHANGED <<isClosingRef, isClosing>>
       ELSE /\ CloseMoves(task, {})
            /\ closeFinally(FALSE)
            /\ UNCHANGED savedSessions
    /\ CloseKeepsBridge
    /\ UNCHANGED <<nvimUp, keymapsUp, isPickerOpen, terminals>>

\* useTerminalManager.ts:27-31: nvim_disconnect returned to destroyTerminal; a
\* failure is only logged
DestroyDisconnectReturns(task, ok) ==
    /\ task \in tasks /\ task.kind = "close" /\ task.pc = "nvimDisconnect" /\ ~ProbePending
    /\ CloseMoves(task, {[task EXCEPT !.pc = "unbind"]})
    /\ nvimUp' = IF ok THEN nvimUp \ {task.tid} ELSE nvimUp
    /\ keymapsUp' = IF ok THEN keymapsUp \ {task.tid} ELSE keymapsUp
    /\ CloseKeepsBridge
    /\ UNCHANGED sessionVars

\* useTerminalManager.ts:33-37: acp_unbind_terminal returned; a failure is only
\* logged
UnbindReturns(task, ok) ==
    /\ task \in tasks /\ task.kind = "close" /\ task.pc = "unbind" /\ ~ProbePending
    /\ CloseMoves(task, {[task EXCEPT !.pc = "removeSocket"]})
    /\ CloseKeepsBridge
    /\ UNCHANGED <<nvimUp, keymapsUp, sessionVars>>

\* part_015:203-213 and part_006:56-62: what the render without an active
\* terminal leaves
terminalCleared(s) ==
    [disconnected(s) EXCEPT !.isStartingNvim = FALSE, !.tmuxFallbackPrompt = "null"]

\* useTerminalManager.ts:39-48: remove_socket_path returned (a failure is only
\* logged) and the terminal is removed, with the effects of the render that
\* follows when it was the active one: part_015:202-213, part_006:56-62 and
\* the auto-start effect part_006:274-277.  The call goes on to
\* useSessionManager.ts:50.
RemoveSocketReturns(task, ok) ==
    /\ task \in tasks /\ task.kind = "close" /\ task.pc = "removeSocket" /\ ~ProbePending
    /\ tasks' = (tasks \ {task}) \cup {[task EXCEPT !.pc = "setActiveFolder"]}
    /\ terminals' = terminals \ {task.tid}
    /\ IF terminalId = task.tid
       THEN /\ terminalId' = NoTerminal
            /\ startAttemptRef' = startAttemptRef + 1
            /\ Commit(terminalCleared(Current))
            /\ autoStartedConnectKeyRef' = "null"
       ELSE /\ Commit(Current)
            /\ UNCHANGED <<terminalId, startAttemptRef, autoStartedConnectKeyRef>>
    /\ UNCHANGED <<nvimUp, keymapsUp, now, isPickerOpen, isClosing, isClosingRef, savedSessions,
                   isStreaming, renderedStreaming, autoApply, autoApplyRef,
                   currentAssistantIdRef, actionTriggeredRef, traceTail, prompts, applies,
                   agentTurns,
                   agentStatus, renderedAgentStatus, sessionId, permissionQueue,
                   isRespondingPermission, responses, forwarded, nextRequestId, ensures,
                   agentError, permissionError, installState>>

\* useSessionManager.ts:50-55: db_set_active_folder returned; the picker opens
\* when it succeeded
SetActiveFolderReturns(task, ok) ==
    /\ task \in tasks /\ task.kind = "close" /\ task.pc = "setActiveFolder" /\ ~ProbePending
    /\ CloseMoves(task, {})
    /\ isPickerOpen' = IF ok THEN TRUE ELSE isPickerOpen
    /\ closeFinally(ok)
    /\ CloseKeepsBridge
    /\ UNCHANGED <<nvimUp, keymapsUp, terminals, savedSessions>>

\* useSessionManager.ts:62-64, the picker is dismissed
closePicker ==
    /\ isPickerOpen
    /\ isPickerOpen' = FALSE
    /\ UNCHANGED <<chatVars, bridgeVars, agentVars, now, isClosing, isClosingRef, terminals,
                   savedSessions>>

\* The workspace with the session of t1 open: closing sessions, selecting
\* folders, the editor's replies and the edit buttons of the transcript
NextClose ==
    \/ closeSession
    \/ \E task \in tasks, ok \in BOOLEAN : ScreenshotReturns(task, ok)
    \/ \E task \in tasks, ok \in BOOLEAN : SaveSessionReturns(task, ok)
    \/ \E task \in tasks, ok \in BOOLEAN : DestroyDisconnectReturns(task, ok)
    \/ \E task \in tasks, ok \in BOOLEAN : UnbindReturns(task, ok)
    \/ \E task \in tasks, ok \in BOOLEAN : RemoveSocketReturns(task, ok)
    \/ \E task \in tasks, ok \in BOOLEAN : SetActiveFolderReturns(task, ok)
    \/ closePicker
    \/ \E tid \in Terminals : SwitchTerminal(tid)
    \/ \E task \in tasks, ok \in BOOLEAN : ProbeReturns(task, ok)
    \/ \E task \in tasks : AfterProbe(task)
    \/ \E task \in tasks : ContextReturns(task)
    \/ \E task \in tasks : DiagnosticsReturns(task)
    \/ \E id \in 1..(FirstFreshId - 1) : ClickApply(id)
    \/ \E id \in 1..(FirstFreshId - 1) : ClickReject(id)
    \/ \E i \in DOMAIN applies : ApplyResolved(i)
    \/ \E i \in DOMAIN applies : ApplyRejected(i)

SpecClose == InitChat /\ [][NextClose]_vars

\* The editor of t1 is connected and the agent runs with the session created
\* for t1
InitSession ==
    /\ InitChat
    /\ messages = <<StoredAssistant("rejected")>>
    /\ ~autoApply
    /\ context = Ctx1
    /\ sessionId = SessionOf("t1")

\* The chat from a switch to terminal t2 until the editor answers for t2,
\* every render completing before the next event
NextSession ==
    LET Deliver == ~MicrotaskPending /\ Rendered
    IN  \/ ~MicrotaskPending /\ Rerender
        \/ Deliver /\ \E text \in TypedTexts : TypedSubmit(text)
        \/ Deliver /\ \E tid \in Terminals, a \in NvimActions : NvimActionEvent(tid, a)
        \/ Deliver /\ \E i \in DOMAIN prompts : PromptResolved(i)
        \/ Deliver /\ \E i \in DOMAIN prompts, e \in ErrorData : PromptRejected(i, e)
        \/ Deliver /\ \E d \in {Reply[k] : k \in DOMAIN Reply} : OnContentChunk(d)
        \/ Deliver /\ OnDone
        \/ Deliver /\ \E d \in ErrorData : OnError(d)
        \/ Deliver /\ switchToFolder("t2")
        \/ Deliver /\ \E i \in DOMAIN ensures, ok \in BOOLEAN : CreateSessionReturns(i, ok)

SpecSession == InitSession /\ [][NextSession]_vars

(***************************************************************************)
(* Properties of the chat controller (SpecChat).                           *)
(***************************************************************************)
NonSystemCount(msgs) == Cardinality({i \in DOMAIN msgs : msgs[i].role # "system"})

\* A step that starts an exchange: a user or assistant message is appended, a
\* prompt is handed to sendPrompt, or another placeholder becomes the target.
SubmissionStarts ==
    \/ NonSystemCount(messages') > NonSystemCount(messages)
    \/ Len(prompts') > Len(prompts)
    \/ currentAssistantIdRef' \notin {currentAssistantIdRef, 0}

\* C1: while an exchange is Streaming no further submission is accepted: no
\* user or assistant message is appended, no prompt is sent and the current
\* assistant target is not replaced.
C1_OneExchangeInFlight == [][isStreaming => ~SubmissionStarts]_vars

Resolved(m) == m.editStatus \in {"applied", "rejected"}

\* A step of the manual edit controls: applyProposedEdits (its call and the
\* continuation after its await) or rejectProposedEdits.
ManualEditStep ==
    \/ \E id \in 1..(nextMsgId - 1) : ClickApply(id) \/ ClickReject(id)
    \/ \E i \in DOMAIN applies : ~applies[i].auto /\ ApplyResolved(i)

\* C3: editStatus is one-way: once a message is applied or rejected,
\* applyProposedEdits and rejectProposedEdits leave its editStatus as it is.
C3_EditStatusOneWay ==
    [][ManualEditStep =>
          \A i \in DOMAIN messages :
              Resolved(messages[i]) => messages'[i].editStatus = messages[i].editStatus]_vars

\* The user message of the exchange whose placeholder has this id
UserMessageOf(assistantId) == MessageById(messages, assistantId - 1)
ActionStarted(assistantId) == UserMessageOf(assistantId).content \in ActionPrompts

\* The step calls nvim.applyEdits from the done handler
AutoApplyStarts ==
    /\ Len(applies') = Len(applies) + 1
    /\ applies'[Len(applies')].auto

\* C6: when an exchange started by an editor action ends with done while
\* auto-apply is enabled and the most recent assistant message with proposed
\* edits has editStatus unset, applyEdits is invoked exactly once with those
\* edits, and when that call succeeds the message becomes applied.
C6_AutoApplyOnActionDone ==
    [][/\ (/\ OnDone
           /\ ActionStarted(Head(agentTurns).id)
           /\ autoApply
           /\ LastAssistantWithEdits(messages) # 0
           /\ messages[LastAssistantWithEdits(messages)].editStatus = "unset")
          => /\ AutoApplyStarts
             /\ applies'[Len(applies')].messageId
                    = messages[LastAssistantWithEdits(messages)].id
             /\ applies'[Len(applies')].edits
                    = messages[LastAssistantWithEdits(messages)].proposedEdits
       /\ \A i \in DOMAIN applies :
              (applies[i].auto /\ ApplyResolved(i))
                  => MessageById(messages', applies[i].messageId).editStatus = "applied"]_vars

\* C7: an exchange started by typed user text never leads to an automatic
\* applyEdits: the done event that calls it ends an exchange an editor action
\* started.
C7_TypedNeverAutoApplies ==
    [][AutoApplyStarts => ActionStarted(Head(agentTurns).id)]_vars

\* C8: an editor action event for another terminal, or arriving while an
\* exchange is Streaming, is dropped: nothing but a trace event is recorded.
C8_ActionDropped ==
    [][\A tid \in Terminals, a \in NvimActions :
          (NvimActionEvent(tid, a) /\ (tid # terminalId \/ isStreaming))
              => /\ messages' = messages
                 /\ prompts' = prompts
                 /\ actionTriggeredRef' = actionTriggeredRef
                 /\ currentAssistantIdRef' = currentAssistantIdRef
                 /\ traceTail' = "nvim.action.ignored"]_vars

OthersUnchanged(id) ==
    /\ Len(messages') = Len(messages)
    /\ \A i \in DOMAIN messages : messages[i].id # id => messages'[i] = messages[i]

\* C9: a contentChunk event appends its payload to the end of the current
\* assistant message's content and changes nothing else of the transcript; a
\* done event ends the exchange (not streaming, no current assistant).
C9_ChunksAccumulate ==
    [][/\ \A d \in {Reply[k] : k \in DOMAIN Reply} :
              (OnContentChunk(d) /\ HasMessage(messages, currentAssistantIdRef))
                  => /\ MessageById(messages', currentAssistantIdRef).content
                            = MessageById(messages, currentAssistantIdRef).content \o d
                     /\ OthersUnchanged(currentAssistantIdRef)
                     /\ currentAssistantIdRef' = currentAssistantIdRef
       /\ OnDone => (~isStreaming' /\ currentAssistantIdRef' = 0)]_vars

\* Scenario B reached: "Hello", " world", done
C9_Witness ==
    /\ ~isStreaming
    /\ currentAssistantIdRef = 0
    /\ traceTail = "agent.done"
    /\ \E i \in DOMAIN messages :
           messages[i].role = "assistant" /\ messages[i].content = "Hello world"

\* C10: submitting non-empty text while nothing is Streaming appends exactly
\* two messages, the user message with the text and then an empty assistant
\* placeholder that becomes the current target, and sets Streaming; with a
\* null editor context the prompt carries no context string.
C10_SubmitAppendsTwo ==
    [][\A text \in TypedTexts :
          (TypedSubmit(text) /\ Trim(text) # "" /\ ~isStreaming)
              => LET n == Len(messages)
                 IN /\ Len(messages') = n + 2
                    /\ SubSeq(messages', 1, n) = messages
                    /\ messages'[n + 1].role = "user"
                    /\ messages'[n + 1].content = Trim(text)
                    /\ messages'[n + 2].role = "assistant"
                    /\ messages'[n + 2].content = ""
                    /\ currentAssistantIdRef' = messages'[n + 2].id
                    /\ isStreaming'
                    /\ Len(prompts') = Len(prompts) + 1
                    /\ context = NoContext
                          => prompts'[Len(prompts')].contextString = NoContextString]_vars

\* Scenario A reached: "fix this" submitted with a null context
C10_Witness ==
    /\ isStreaming
    /\ context = NoContext
    /\ Len(messages) = 3
    /\ messages[2].role = "user" /\ messages[2].content = "fix this"
    /\ messages[3].role = "assistant" /\ messages[3].content = ""
    /\ currentAssistantIdRef = messages[3].id
    /\ Len(prompts) = 1 /\ prompts[1].contextString = NoContextString

NoSessionError == "**Error:** Error: No active session"

\* C16: sendPrompt without an active sessionId fails with the no-active-session
\* error without contacting the agent; the exchange ends (isStreaming false, no
\* current assistant target), its assistant placeholder shows the error, and
\* nothing is sent again.
C16_NoSessionEndsExchange ==
    /\ [](\A i \in DOMAIN prompts : prompts[i].sessionId = 0 => ~prompts[i].sent)
    /\ [](sessionId = 0 => agentTurns = <<>>)
    /\ [][\A i \in DOMAIN prompts :
             PromptThrows(i)
                 => /\ ~isStreaming'
                    /\ currentAssistantIdRef' = 0
                    /\ MessageById(messages', prompts[i].assistantId).content = NoSessionError
                    /\ OthersUnchanged(prompts[i].assistantId)
                    /\ prompts' = RemoveAt(prompts, i)
                    /\ UNCHANGED <<nextMsgId, agentTurns>>]_vars

\* A submission without a session has ended with the error in its placeholder
C16_Witness ==
    /\ sessionId = 0 /\ ~isStreaming /\ currentAssistantIdRef = 0 /\ prompts = <<>>
    /\ nextMsgId = FirstFreshId + 2
    /\ MessageById(messages, FirstFreshId + 1).content = NoSessionError

\* The step starts an applyEdits call: the call it appends
StartsApply == Len(applies') > Len(applies)
StartedApply == applies'[Len(applies')]

\* C19: proposed edits reach the editor only as applyEdits calls of the editor
\* bridge: every manual or automatic application is one call for the active
\* terminal that carries the whole edit batch of its message, a rejected call
\* fails as a whole (the message is left as it was), and a message becomes
\* applied only when its call resolves.
C19_EditsOnlyThroughBridge ==
    /\ [][StartsApply
             => /\ applies' = Append(applies, StartedApply)
                /\ StartedApply.terminalId = terminalId
                /\ HasMessage(messages, StartedApply.messageId)
                /\ StartedApply.edits
                       = MessageById(messages, StartedApply.messageId).proposedEdits
                /\ Len(StartedApply.edits) = Len(Edits1)
                /\ (\E id \in 1..(nextMsgId - 1) : ClickApply(id)) \/ OnDone]_vars
    /\ [][\A i \in DOMAIN applies :
             ApplyRejected(i) => (messages' = messages /\ applies' = RemoveAt(applies, i))]_vars
    /\ [][\A k \in DOMAIN messages :
             (messages[k].editStatus # "applied" /\ messages'[k].editStatus = "applied")
                 => \E i \in DOMAIN applies :
                        /\ applies[i].messageId = messages[k].id
                        /\ applies[i].edits = messages[k].proposedEdits
                        /\ ApplyResolved(i)]_vars

\* A manual application of the stored message's two edits has resolved
C19_Witness ==
    /\ traceTail = "edits.apply.success"
    /\ applies = <<>>
    /\ MessageById(messages, 1).editStatus = "applied"
    /\ Len(MessageById(messages, 1).proposedEdits) = 2

\* The message is what it was, but for its content and its editStatus
SameMessage(old, new) ==
    new = [old EXCEPT !.content = new.content, !.editStatus = new.editStatus]

\* C20: the transcript is append-only: every step keeps the messages it found,
\* in their order, as a prefix of the transcript, changing at most their
\* content and editStatus.
C20_TranscriptAppendOnly ==
    [][/\ Len(messages') >= Len(messages)
       /\ \A i \in DOMAIN messages : SameMessage(messages[i], messages'[i])]_vars

\* C15: one active sessionId per terminal: every prompt sent to the agent
\* carries a sessionId that createSession returned for the terminal active
\* when the prompt is sent, never the session of a previously active terminal.
C15_PromptUsesSessionOfActiveTerminal ==
    [][Len(prompts') > Len(prompts)
          => LET sent == prompts'[Len(prompts')]
             IN sent.sent => sent.sessionId = SessionOf(terminalId)]_vars

ErrorSuffix(data) == "\n\n**Error:** " \o data

\* C21: an error event during Streaming ends the exchange (isStreaming false,
\* no current assistant target), appends the formatted error text to the end
\* of the current assistant message's content, clears the action-triggered
\* flag and starts no application of edits.
C21_ErrorEndsExchange ==
    [][\A d \in ErrorData :
          (isStreaming /\ OnError(d))
              => /\ ~isStreaming'
                 /\ currentAssistantIdRef' = 0
                 /\ ~actionTriggeredRef'
                 /\ applies' = applies
                 /\ currentAssistantIdRef # 0
                 /\ HasMessage(messages, currentAssistantIdRef)
                 /\ MessageById(messages', currentAssistantIdRef).content
                        = MessageById(messages, currentAssistantIdRef).content \o ErrorSuffix(d)
                 /\ OthersUnchanged(currentAssistantIdRef)]_vars

\* An action-triggered exchange with auto-apply on was ended by an error event
\* after its first chunk
C21_Witness ==
    /\ traceTail = "agent.error"
    /\ autoApplyRef
    /\ ~isStreaming /\ currentAssistantIdRef = 0 /\ ~actionTriggeredRef
    /\ HasMessage(messages, FirstFreshId + 1)
    /\ MessageById(messages, FirstFreshId).content \in ActionPrompts
    /\ MessageById(messages, FirstFreshId + 1).content = Reply[1] \o ErrorSuffix("boom")

IsPrefix(a, b) == Len(a) <= Len(b) /\ SubSeq(b, 1, Len(a)) = a

PromptFails(i) == PromptThrows(i) \/ \E e \in ErrorData : PromptRejected(i, e)

\* C22: a failure during an exchange (an agent error event or a rejected
\* prompt submission) is rendered as text appended to the current assistant
\* message: the content accumulated from earlier chunks remains a prefix of
\* that message's content.
C22_FailureKeepsChunks ==
    [][/\ \A d \in ErrorData :
            (OnError(d) /\ HasMessage(messages, currentAssistantIdRef))
                => IsPrefix(MessageById(messages, currentAssistantIdRef).content,
                            MessageById(messages', currentAssistantIdRef).content)
       /\ \A i \in DOMAIN prompts :
            (PromptFails(i) /\ HasMessage(messages, prompts[i].assistantId))
                => IsPrefix(MessageById(messages, prompts[i].assistantId).content,
                            MessageById(messages', prompts[i].assistantId).content)]_vars

\* The exchange in flight leaves Streaming
LeavesStreaming == isStreaming /\ ~isStreaming'

\* The chat input accepted a typed submission
InputAccepted == \E text \in TypedTexts : TypedSubmit(text) /\ nextMsgId' # nextMsgId

\* C23: an exchange that is Streaming leaves Streaming only when a done or an
\* error event is received or its own prompt submission fails; no other step
\* ends it, and the chat input accepts no submission until then.
C23_StreamingEndsOnlyByAgent ==
    [][/\ LeavesStreaming
            => \/ OnDone
               \/ \E d \in ErrorData : OnError(d)
               \/ \E i \in DOMAIN prompts :
                     prompts[i].assistantId = currentAssistantIdRef /\ PromptFails(i)
       /\ isStreaming => ~InputAccepted]_vars

\* C27: auto-apply at done selects only an assistant message whose proposed
\* edits are unresolved (editStatus pending or unset): a message already
\* applied or rejected is never passed to applyEdits by auto-apply, and its
\* editStatus is not changed by auto-apply.
C27_AutoApplyOnlyUnresolved ==
    [][/\ AutoApplyStarts
            => MessageById(messages, StartedApply.messageId).editStatus
                   \in {"unset", "pending"}
       /\ \A i \in DOMAIN applies :
              (/\ applies[i].auto
               /\ ApplyResolved(i)
               /\ HasMessage(messages, applies[i].messageId)
               /\ MessageById(messages, applies[i].messageId).editStatus
                      \in {"applied", "rejected"})
                 => MessageById(messages', applies[i].messageId).editStatus
                        = MessageById(messages, applies[i].messageId).editStatus]_vars

\* C31: when applyEdits fails, in auto-apply at done or in a manual
\* applyProposedEdits, the transcript is left exactly as it was (no editStatus
\* changes, no message is added or altered), the trace records the failure of
\* that kind of apply, and the call ends without anything else changing.
C31_ApplyFailureSwallowed ==
    [][\A i \in DOMAIN applies :
          ApplyRejected(i)
              => /\ messages' = messages
                 /\ traceTail' = IF applies[i].auto THEN "edits.autoApply.error"
                                 ELSE "edits.apply.error"
                 /\ applies' = RemoveAt(applies, i)
                 /\ UNCHANGED <<isStreaming, currentAssistantIdRef, actionTriggeredRef,
                                prompts, agentTurns>>]_vars

\* An auto-apply has failed and the message it was for is still pending
C31_Witness ==
    /\ traceTail = "edits.autoApply.error"
    /\ \E k \in DOMAIN messages :
          /\ messages[k].proposedEdits # NoEdits
          /\ messages[k].editStatus = "pending"

\* C34: the outcome of an earlier exchange's prompt submission never disturbs
\* a later exchange: when the sendPrompt call of an exchange that already
\* ended is rejected while a later exchange is Streaming, that exchange stays
\* Streaming and its placeholder remains the target of the chunks.
C34_LateRejectionLeavesLaterExchange ==
    [][\A i \in DOMAIN prompts, e \in ErrorData :
          (/\ PromptRejected(i, e)
           /\ isStreaming
           /\ currentAssistantIdRef \notin {0, prompts[i].assistantId})
              => /\ isStreaming'
                 /\ currentAssistantIdRef' = currentAssistantIdRef]_vars

\* C39: a contentChunk event received while no exchange is in flight (no
\* current assistant target) leaves the transcript, isStreaming and the
\* action-triggered flag unchanged; toolCallStarted, toolCallUpdated and
\* thoughtChunk events never alter the transcript.
C39_UntargetedEventsIgnored ==
    /\ [][\A d \in {Reply[k] : k \in DOMAIN Reply} :
             (OnContentChunk(d) /\ currentAssistantIdRef = 0)
                 => /\ messages' = messages
                    /\ isStreaming' = isStreaming
                    /\ actionTriggeredRef' = actionTriggeredRef]_vars
    /\ [][\A type \in OtherEventTypes : OnOtherEvent(type) => messages' = messages]_vars

\* The agent has emitted every chunk and a tool-call or thought event of its
\* open turn while no exchange was in flight, and the placeholder of that turn
\* is still empty
C39_Witness ==
    /\ agentTurns # <<>>
    /\ currentAssistantIdRef = 0
    /\ Head(agentTurns).emitted = Len(Reply)
    /\ Head(agentTurns).other = MaxOtherEvents
    /\ Len(agentTurns) = 1
    /\ HasMessage(messages, Head(agentTurns).id)
    /\ MessageById(messages, Head(agentTurns).id).content = ""

(***************************************************************************)
(* Properties of the connection (SpecConn).                                *)
(***************************************************************************)
\* The step is a continuation of this task
TaskStep(task) == task \in tasks /\ task \notin tasks'

\* The attempt was superseded by a newer attempt or a terminal switch
Superseded(task) == task.kind = "start" /\ task.token # startAttemptRef

\* C2: only the start attempt holding the highest issued token changes the
\* connection state or appends its success or failure message: a continuation
\* of a superseded attempt leaves both as they are.
C2_StaleAttemptDiscarded ==
    [][\A task \in tasks :
          (Superseded(task) /\ TaskStep(task))
              => UNCHANGED <<status, context, diagnostics, health, keymapStatus,
                             lastError, messages>>]_vars

\* C5: a health probe that returns connected=false leaves the state
\* Disconnected with context cleared, diagnostics empty and keymap status
\* unknown, and until a later probe reports connected=true no context or
\* diagnostics are visible.
C5_DisconnectedClearsContext ==
    /\ [][\A task \in tasks :
             (ProbeReturns(task, TRUE) /\ task.tid \notin nvimUp)
                 => /\ status' = "Disconnected"
                    /\ context' = NoContext
                    /\ diagnostics' = <<>>
                    /\ keymapStatus' = "unknown"]_vars
    /\ [](lastProbe = "disconnected" => (context = NoContext /\ diagnostics = <<>>))

\* The task waits for the reply to a health probe or to a context or
\* diagnostics fetch
AwaitsEditorReply(task) == task.pc \in {"probe", "probe2", "getContext", "getDiagnostics"}

\* C13: after the active terminal changed, the reply to a health probe, context
\* fetch or diagnostics fetch issued for the previous terminal is discarded: it
\* changes none of status, health, keymap status, lastError, context and
\* diagnostics.
C13_PreviousTerminalReplyDiscarded ==
    [][\A task \in tasks :
          (AwaitsEditorReply(task) /\ task.tid # terminalId /\ TaskStep(task))
              => UNCHANGED <<status, health, keymapStatus, lastError, context,
                             diagnostics>>]_vars

\* The task waits for the reply to a connect, health-probe or context-refresh call
AwaitsBridgeReply(task) == task.pc = "connect" \/ AwaitsEditorReply(task)

\* C14: within one terminal the connect, health-probe and context-refresh calls
\* are strictly sequential: no two of them wait for their reply at the same
\* time.
C14_BridgeCallsSequential ==
    \A a, b \in tasks :
        (AwaitsBridgeReply(a) /\ AwaitsBridgeReply(b) /\ a.tid = b.tid) => a = b

\* C17: a health probe whose RPC fails leaves status Error and keymap status
\* error with context and diagnostics cleared, and no context or diagnostics
\* are visible while the status is Error.
C17_ProbeFailureClearsContext ==
    /\ [][\A task \in tasks :
             ProbeReturns(task, FALSE)
                 => /\ status' = "Error"
                    /\ keymapStatus' = "error"
                    /\ context' = NoContext
                    /\ diagnostics' = <<>>]_vars
    /\ [](status = "Error" => (context = NoContext /\ diagnostics = <<>>))

\* C18: disconnect resets all derived state to its initial values (status
\* Disconnected, no health, keymap status unknown, no lastError, no context,
\* no diagnostics, failure counter 0) from every prior state and whatever the
\* outcome of the editor-side disconnect call.
C18_DisconnectAlwaysResets ==
    [][\A task \in tasks, ok \in BOOLEAN :
          DisconnectReturns(task, ok)
              => /\ status' = "Disconnected"
                 /\ health' = NoHealth
                 /\ keymapStatus' = "unknown"
                 /\ lastError' = "null"
                 /\ context' = NoContext
                 /\ diagnostics' = <<>>
                 /\ failedRefreshesRef' = 0]_vars

Refreshes(ts) == {task \in ts : task.kind = "refresh"}

\* The fetch of a refresh failed at this step
RefreshFetchFails(task) ==
    /\ task.kind = "refresh" /\ task.tid \notin nvimUp
    /\ ContextReturns(task) \/ DiagnosticsReturns(task)

InLoop(token) ==
    \E task \in tasks :
        /\ task.kind = "start" /\ task.token = token
        /\ task.pc \notin {"socketPath", "startInTmux"}

\* The deadline of the attempt lies within the clock's range
WithinClock(token) ==
    \A task \in tasks :
        (task.kind = "start" /\ task.token = token)
            => task.deadline <= MaxNow

\* The task is in the retry loop of waitForNvimConnection
Looping(task) == task.kind = "start" /\ task.pc \notin {"socketPath", "startInTmux"}

\* The task the step turns this task into, if any
Successors(task) == {next \in tasks' \ tasks : next.kind = task.kind /\ next.token = task.token}

LastContent(msgs) == IF msgs = <<>> THEN "none" ELSE msgs[Len(msgs)].content

\* A connect of the loop failed at this step
LoopConnectFails(task) ==
    \/ ConnectReturns(task, FALSE)
    \/ AfterProbe(task) /\ task.reply # "connected"
    \/ task.tid \notin nvimUp /\ (ContextReturns(task) \/ DiagnosticsReturns(task))

\* C28: the retry loop of waitForNvimConnection ends in exactly one of three
\* ways: with the success message on the first connect that succeeds; silently,
\* with no further connect call and no message, when it finds its attempt
\* superseded at the head of the loop; or, once the deadline of 8 s has passed,
\* with the last connect error.  A failed connect is retried 250 ms later, and
\* every loop whose deadline the clock can reach does end.
C28_LoopTerminates ==
    /\ [][\A task \in tasks : Looping(task) =>
            /\ SleepReturns(task)
                 => IF now >= task.deadline
                    THEN /\ Successors(task) = {}
                         /\ task.lastError # "null"
                         /\ ~Superseded(task)
                              => LastContent(messages')
                                   = "Failed to start Neovim: Error: " \o task.lastError
                    ELSE IF Superseded(task)
                    THEN /\ Successors(task) = {}
                         /\ UNCHANGED <<messages, status, lastError, health>>
                    ELSE Successors(task) = {[task EXCEPT !.pc = "connect"]}
            /\ LoopConnectFails(task)
                 => \E next \in Successors(task) :
                        /\ next.pc = "sleep"
                        /\ next.wake = now + NVIM_CONNECT_POLL_MS
                        /\ next.lastError # "null"
                        /\ next.deadline = task.deadline
            /\ (DiagnosticsReturns(task) /\ task.tid \in nvimUp)
                 => /\ Successors(task) = {}
                    /\ LastContent(messages') = task.successMessage
            /\ (TaskStep(task) /\ Successors(task) = {})
                 => \/ SleepReturns(task)
                    \/ DiagnosticsReturns(task) /\ task.tid \in nvimUp]_vars
    /\ \A token \in 1..MaxAttempts :
          (InLoop(token) /\ WithinClock(token)) ~> ~InLoop(token)

\* An attempt failed at its deadline with the error of its last connect
C28_Witness ==
    /\ now >= NVIM_CONNECT_TIMEOUT_MS
    /\ \A task \in tasks : task.kind # "start"
    /\ LastContent(messages) = "Failed to start Neovim: Error: " \o InvokeError

\* The step calls appendSystemMessage(content, kind): part_006:128, 134-135 and
\* 141 in startNvim, part_006:87 in waitForNvimConnection
StartAppends(task, content, kind) ==
    \/ /\ ~Superseded(task) /\ kind = "status-note"
       /\ \/ /\ SocketPathReturns(task, FALSE) \/ StartInTmuxReturns(task, "rejected")
             /\ content = "Failed to start Neovim: " \o InvokeError
          \/ /\ StartInTmuxReturns(task, "tmuxUnavailable")
             /\ content = LaunchMessage
          \/ /\ SleepReturns(task) /\ now >= task.deadline
             /\ content = "Failed to start Neovim: Error: " \o task.lastError
    \/ /\ task.kind = "start" /\ kind = "action-summary"
       /\ DiagnosticsReturns(task) /\ task.tid \in nvimUp
       /\ content = task.successMessage

\* The transcript ends with a system message of this content and kind that is
\* at most 2 s old
Duplicates(msgs, content, kind) ==
    /\ msgs # <<>>
    /\ msgs[Len(msgs)].role = "system"
    /\ msgs[Len(msgs)].content = content
    /\ msgs[Len(msgs)].systemKind = kind
    /\ now - msgs[Len(msgs)].timestamp <= SYSTEM_DEDUPE_MS

SystemContents ==
    {LaunchMessage, "Failed to start Neovim: " \o InvokeError,
     "Failed to start Neovim: Error: " \o InvokeError,
     "Failed to start Neovim: Error: Error: Neovim is not ready yet",
     "Started Neovim in tmux and connected to socket.",
     "Started Neovim and connected to socket."}

ReinjectReturnsNormally(task) ==
    /\ task.kind = "reinject" /\ task.pc = "probed"
    /\ AfterProbe(task)

\* C26 as stated: reinjectKeymaps, called while KeymapStatus is present, leaves
\* KeymapStatus at present when it returns.
C26_ReinjectKeepsPresent ==
    [][\A task \in tasks :
          (ReinjectReturnsNormally(task) /\ task.seen = "present")
              => keymapStatus' = "present"]_vars

\* C26 amended: reinjectKeymaps, called while KeymapStatus is present, leaves
\* KeymapStatus at present when it returns, provided the probe it makes after
\* the reinjection reports the editor connected with its keymaps injected; it
\* leaves missing when that probe reports the keymaps not injected, unknown
\* when it reports the editor not connected and error when the probe is
\* rejected.  The reinjection itself leaves the status alone, and a rejected
\* reinjection sets error.
C26_ReinjectRederivesStatus ==
    [][\A task \in tasks :
          /\ (ReinjectReturnsNormally(task) /\ task.seen = "present")
                => keymapStatus' =
                      IF task.reply = "failed" THEN "error"
                      ELSE IF task.reply = "disconnected" THEN "unknown"
                      ELSE IF health.keymapsInjected THEN "present"
                      ELSE "missing"
          /\ (task.kind = "reinject" /\ ReinjectReturns(task, TRUE))
                => keymapStatus' = keymapStatus /\ task.tid \in keymapsUp'
          /\ (task.kind = "reinject" /\ ReinjectReturns(task, FALSE))
                => keymapStatus' = "error"]_vars

\* A call made at present has reinjected, its probe has reported the editor
\* connected with keymaps injected, and it returns with the status at present
C26_Witness ==
    \E task \in tasks :
        /\ task.kind = "reinject" /\ task.pc = "probed" /\ task.seen = "present"
        /\ task.reply = "connected"
        /\ health = Snapshot(TRUE, TRUE)
        /\ keymapStatus = "present" /\ status = "Connected"

\* C36: in every reachable state of the connection, the status Disconnected
\* implies that the keymap status is unknown, the context is none and the
\* diagnostics are empty.
C36_DisconnectedIsCleared ==
    status = "Disconnected"
        => (keymapStatus = "unknown" /\ context = NoContext /\ diagnostics = <<>>)

\* The awaits of connect (part_015:97-108)
ConnectPcs == {"connect", "probe", "probed", "getContext", "getDiagnostics"}

\* The connect call of this start attempt returns to its caller in this step
ConnectResolves(task) ==
    /\ task \in tasks /\ task.kind = "start" /\ task.pc \in ConnectPcs
    /\ task \notin tasks'
    /\ \A next \in tasks' \ tasks : next.kind = "start" => next.token # task.token

\* The connect call of this start attempt throws in this step: the retry loop
\* of its caller catches the failure and sleeps
ConnectRethrows(task) ==
    /\ task \in tasks /\ task.kind = "start" /\ task.pc \in ConnectPcs
    /\ task \notin tasks'
    /\ \E next \in tasks' \ tasks :
           next.kind = "start" /\ next.token = task.token /\ next.pc = "sleep"

\* C38: connect resolves only when the connect call succeeded, the health
\* probe that followed reported connected = true and context and diagnostics
\* were fetched, and the status is then Connected; in every other case it
\* rethrows the failure and leaves status = Error, keymap status = error, the
\* health cleared and lastError set to the failure.
C38_ConnectResolvesOnlyConnected ==
    /\ [][\A task \in tasks :
             ConnectResolves(task)
                 => /\ task.pc = "getDiagnostics"
                    /\ task.reply = "connected"
                    /\ task.ctx # NoContext
                    /\ context' = task.ctx /\ diagnostics' = DiagOf(task.tid)
                    /\ status' = "Connected"]_vars
    /\ [][\A task \in tasks :
             ConnectRethrows(task)
                 => /\ status' = "Error" /\ keymapStatus' = "error"
                    /\ health' = NoHealth
                    /\ lastError' # "null"
                    /\ \E next \in tasks' \ tasks :
                           next.pc = "sleep" /\ next.lastError = lastError']_vars
    /\ [][\A task \in tasks :
             (task.kind = "start" /\ task.pc \in ConnectPcs /\ task \notin tasks')
                 => \/ ConnectResolves(task)
                    \/ ConnectRethrows(task)
                    \/ \E next \in tasks' \ tasks :
                           /\ next.kind = "start" /\ next.token = task.token
                           /\ next.pc \in ConnectPcs \ {"connect"}]_vars

(***************************************************************************)
(* Properties of the permission queue (SpecAgent).                         *)
(***************************************************************************)
\* The queue without its entry at position k
WithoutEntry(queue, k) == SubSeq(queue, 1, k - 1) \o SubSeq(queue, k + 1, Len(queue))

\* C4: permission requests are queued in arrival order and the current request
\* is the head; a successful respond removes exactly the entry with its
\* requestId, wherever it sits, keeps the others in their order, and without
\* an optionId forwards no option to the agent.
C4_RespondRemovesExactEntry ==
    /\ [](permissionQueue # <<>> => currentPermission = permissionQueue[1])
    /\ [][\A tid \in {NoTerminal, "t2"} :
             PermissionRequestArrives(tid)
                 => /\ Len(permissionQueue') = Len(permissionQueue) + 1
                    /\ SubSeq(permissionQueue', 1, Len(permissionQueue)) = permissionQueue
                    /\ permissionQueue'[Len(permissionQueue')].requestId
                           = RequestId(nextRequestId)]_vars
    /\ [][\A i \in DOMAIN responses :
             RespondResolved(i)
                 => /\ \A k \in DOMAIN permissionQueue :
                           permissionQueue[k].requestId = responses[i].requestId
                               => permissionQueue' = WithoutEntry(permissionQueue, k)
                    /\ (\A k \in DOMAIN permissionQueue :
                            permissionQueue[k].requestId # responses[i].requestId)
                           => permissionQueue' = permissionQueue
                    /\ forwarded'[Len(forwarded')].requestId = responses[i].requestId
                    /\ responses[i].optionId = NoOption
                           => forwarded'[Len(forwarded')].optionId = "null"
                    /\ responses[i].optionId # NoOption
                           => forwarded'[Len(forwarded')].optionId = responses[i].optionId]_vars

\* r1 was answered at the head and r3 behind r2, both without an option
C4_Witness ==
    /\ nextRequestId = 4
    /\ Len(permissionQueue) = 1 /\ permissionQueue[1].requestId = "r2"
    /\ forwarded = <<RespondArgs("r1", NoOption), RespondArgs("r3", NoOption)>>

\* The responses of the permission card that await the agent's reply
PanelResponses == {i \in DOMAIN responses : responses[i].panel}

\* C32: a response is forwarded to the agent first and its request leaves the
\* queue only when the forward succeeded; when the forward fails the queue is
\* unchanged, the request presented stays the one presented, nothing counts as
\* forwarded and the failure is reported (permission error and a transcript
\* note); the permission card sends no second response while one is in
\* progress.
C32_RespondForwardsFirst ==
    /\ [](Cardinality(PanelResponses) <= 1)
    /\ [](isRespondingPermission <=> PanelResponses # {})
    /\ [][\A o \in OptionIds \cup {NoOption} :
             ClickPermission(o)
                 => /\ PanelResponses = {}
                    /\ permissionQueue' = permissionQueue
                    /\ forwarded' = forwarded
                    /\ responses'[Len(responses')].requestId = permissionRequest.requestId]_vars
    /\ [][\A i \in DOMAIN responses :
             RespondResolved(i)
                 => /\ forwarded' = Append(forwarded, RespondArgs(responses[i].requestId,
                                                                   responses[i].optionId))
                    /\ \A k \in DOMAIN permissionQueue' :
                           permissionQueue'[k].requestId # responses[i].requestId]_vars
    /\ [][\A i \in DOMAIN responses, e \in ErrorData :
             RespondRejected(i, e)
                 => /\ permissionQueue' = permissionQueue
                    /\ permissionRequest' = permissionRequest
                    /\ forwarded' = forwarded
                    /\ responses[i].panel
                          => /\ permissionError' = e
                             /\ ~isRespondingPermission'
                             /\ LastContent(messages')
                                    = "Failed to submit permission response: " \o e]_vars

\* The forward of the card's response failed and its request is still presented
C32_Witness ==
    /\ permissionError \in ErrorData
    /\ permissionRequest # NoRequest
    /\ ~isRespondingPermission
    /\ forwarded = <<>>
    /\ LastContent(messages) = "Failed to submit permission response: " \o permissionError

\* C37: whenever the permission queue contains a request addressed to the
\* active terminal or to no terminal, some permission request is presented: a
\* head addressed to another terminal does not hide the requests behind it.
C37_AddressedRequestPresented ==
    (\E k \in DOMAIN permissionQueue :
         permissionQueue[k].terminalId \in {NoTerminal, terminalId})
        => permissionRequest # NoRequest

(***************************************************************************)
(* Properties of the agent's start and stop (SpecAgentOps).                *)
(***************************************************************************)
\* C11: stopAgent always ends with the status Stopped, the sessionId cleared
\* and the permission queue empty, also when the stop call to the agent
\* process fails.
C11_StopAlwaysResets ==
    [][\A task \in tasks, ok \in BOOLEAN :
          StopAgentReturns(task, ok)
              => (agentStatus' = "Stopped" /\ sessionId' = 0 /\ permissionQueue' = <<>>)]_vars

\* acp_start_agent calls awaiting their reply
StartsInFlight == Cardinality({i \in DOMAIN ensures : ensures[i].pc = "startAgent"})

\* C12: never more than one agent start is in progress: while the status is
\* Starting no further start call reaches the agent process.
C12_OneStartInProgress ==
    /\ [](StartsInFlight <= 1)
    /\ [][agentStatus = "Starting" => StartsInFlight' <= StartsInFlight]_vars


\* The step issues acp_create_session
IssuesCreateSession ==
    Cardinality({i \in DOMAIN ensures' : ensures'[i].pc = "createSession"})
        > Cardinality({i \in DOMAIN ensures : ensures[i].pc = "createSession"})

\* C25: createSession is issued only while the agent status is Running, and a
\* sessionId is stored only while the agent status is Running.
C25_SessionOnlyWhileRunning ==
    [][/\ IssuesCreateSession => agentStatus' = "Running"
       /\ (sessionId' # sessionId /\ sessionId' # 0) => agentStatus = "Running"]_vars

\* The step is a call of startAgent
StartAgentCalled ==
    /\ Len(ensures') = Len(ensures) + 1
    /\ ensures'[Len(ensures')].pc = "startAgent"

\* C24: startAgent sets the status Starting, empties the permission queue and
\* shows the install status "starting" before acp_start_agent is answered; when
\* the call resolves the status is Running and the install status is cleared;
\* when it is rejected the status is Error with the message, the failure is
\* passed on to the caller, and the install status is kept if its phase is
\* error and cleared otherwise.
C24_StartEndsRunningOrError ==
    [][/\ StartAgentCalled
            => /\ agentStatus' = "Starting"
               /\ permissionQueue' = <<>>
               /\ installState' = StartingInstall
       /\ \A i \in DOMAIN ensures :
            /\ StartAgentReturns(i, TRUE)
                 => agentStatus' = "Running" /\ installState' = NoInstall
            /\ StartAgentReturns(i, FALSE)
                 => /\ agentStatus' = ErrorStatus(InvokeError)
                    /\ agentError' = InvokeError
                    /\ Len(ensures') = Len(ensures) - 1
                    /\ installState' = IF installState.phase = "error"
                                       THEN installState ELSE NoInstall]_vars

\* A start failed after the installer reported an error: the report is still
\* shown
C24_Witness ==
    /\ agentStatus = ErrorStatus(InvokeError)
    /\ installState.phase = "error"
    /\ ensures = <<>>

(***************************************************************************)
(* Properties of the automatic agent start (SpecAutoStart).                *)
(***************************************************************************)
\* The step begins an ensureAgentSession("auto")
AutoAttemptStarts ==
    /\ Len(ensures') = Len(ensures) + 1
    /\ ensures'[Len(ensures')].source = "auto"

\* The step calls acp_start_agent
AgentStartBegins ==
    /\ Len(ensures') = Len(ensures) + 1
    /\ ensures'[Len(ensures')].pc = "startAgent"

\* C33: the automatic agent start with session creation is attempted at most
\* once while the connection key (terminal id and socket path) stays
\* unchanged: it begins only from the auto-start effect, for a connected key
\* for which none was begun yet, and after an attempt, failed or not, the agent
\* is started again for that key only by the Start Agent button.
C33_AutoStartOncePerKey ==
    /\ [](autoStartsForKey <= 1)
    /\ [][AutoAttemptStarts
             => /\ AutoStartEffect
                /\ nvimConnectKey # "null"
                /\ autoStartsForKey = 0 /\ autoStartsForKey' = 1
                /\ ~AutoStartInFlight]_vars
    /\ [][(AgentStartBegins /\ ~AutoAttemptStarts) => ClickStartAgent]_vars

\* The automatic start for t1 has failed, the key is unchanged and nothing is
\* started again
C33_Witness ==
    /\ nvimConnectKey = ConnectKey("t1")
    /\ autoStartsForKey = 1
    /\ autoStartedConnectKeyRef = ConnectKey("t1")
    /\ agentStatus = ErrorStatus(InvokeError) /\ renderedAgentStatus = agentStatus
    /\ agentError = InvokeError
    /\ ensures = <<>>

(***************************************************************************)
(* Properties of closing a session (SpecClose).                            *)
(***************************************************************************)
\* The steps of a closeSession call after its folder session was saved
AfterSave == {"nvimDisconnect", "unbind", "removeSocket", "setActiveFolder"}

\* A call of closeSession ends in this step
CloseEnds == \E task \in CloseCalls : task \notin tasks' /\ CloseCalls' = {}

\* C40: closeSession is non-reentrant and always releases its guard: a call
\* begins only with an active terminal and while no other call is in progress
\* (any other call has no effect); the terminal is destroyed only after the
\* folder session was saved, closeSession opens the picker only after the
\* terminal was destroyed, and when a call finishes, successfully or because a
\* step failed, the closing flag is false again.
C40_CloseSessionNonReentrant ==
    /\ [](Cardinality(CloseCalls) <= 1)
    /\ [](isClosingRef <=> CloseCalls # {})
    /\ [](isClosing = isClosingRef)
    /\ [](\A task \in CloseCalls : task.pc \in AfterSave => task.tid \in savedSessions)
    /\ [][(CloseCalls' # {} /\ CloseCalls = {})
             => /\ closeSession
                /\ terminalId # NoTerminal /\ ~isClosingRef
                /\ CloseCalls' = {Task("close", "screenshot", terminalId, 0)}]_vars
    /\ [][(closeSession /\ (isClosingRef \/ terminalId = NoTerminal)) => UNCHANGED vars]_vars
    /\ [][\A tid \in terminals \ terminals' :
             \E task \in CloseCalls :
                 /\ task.tid = tid /\ task.pc = "removeSocket"
                 /\ tid \in savedSessions]_vars
    /\ [][(isPickerOpen' /\ ~isPickerOpen)
             => \E task \in CloseCalls : task.pc = "setActiveFolder" /\ task \notin tasks']_vars
    /\ [][\A task \in CloseCalls' \ CloseCalls :
             task.pc = "setActiveFolder" => task.tid \notin terminals']_vars
    /\ [][CloseEnds => (~isClosingRef' /\ ~isClosing')]_vars

\* The session of t1 was saved, its terminal destroyed and the picker opened;
\* the call has finished and released its guard
C40_Witness ==
    /\ isPickerOpen
    /\ "t1" \in savedSessions /\ "t1" \notin terminals
    /\ terminalId = NoTerminal
    /\ CloseCalls = {}
    /\ ~isClosingRef /\ ~isClosing

\* C35: a message's editStatus becomes applied only in a step in which the
\* editor accepts an applyEdits call that was handed to it and carries that
\* message's proposedEdits; a call made while no terminal is active never
\* marks the message applied.
C35_AppliedOnlyWhenEditorAccepted ==
    [][\A k \in DOMAIN messages :
          (/\ k \in DOMAIN messages'
           /\ messages'[k].id = messages[k].id
           /\ messages'[k].editStatus = "applied"
           /\ messages[k].editStatus # "applied")
              => \E i \in DOMAIN applies :
                     /\ applies[i].messageId = messages[k].id
                     /\ applies[i].edits = messages[k].proposedEdits
                     /\ applies[i].sent
                     /\ applies[i].terminalId \in nvimUp]_vars
====
